---- MODULE Spec2Model ----
(***************************************************************************)
(* A model of the gisele live MIDI sequencer: the Sequencer aggregate      *)
(* (seq.rs), the pattern generators (midi.rs) and the realtime jack        *)
(* process callback (jackp.rs).                                            *)
(*                                                                         *)
(* Musical time (f32/f64 bars in the source) is measured on a grid of      *)
(* GridPerBar units per bar, so that bar positions, loop lengths and the   *)
(* jack window are integers.  Event indices (event_head) are 0-based, as   *)
(* in the source; buffers are TLA+ sequences, so buffer[h] of the source   *)
(* is event_buffer[h + 1] here.                                            *)
(***************************************************************************)
EXTENDS Integers, Sequences, FiniteSets, TLC

(***************************************************************************)
(* Bounds of the model.                                                    *)
(***************************************************************************)
GridPerBar == 2
MaxWindowBars == 2
MaxSeqs == 1
MaxNbEvents == 1
MaxIncr == 2
MaxFx == 1
MaxSteps == 6

(***************************************************************************)
(* Program constants.                                                      *)
(***************************************************************************)
NbPitches == 128
UsecPerMinute == 60000000
KeyScale == 1000

(***************************************************************************)
(* Input domains.                                                          *)
(***************************************************************************)
Bar == GridPerBar
MaxWindow == MaxWindowBars * GridPerBar
LoopLens == {Bar, 2 * Bar}
Bpms == {0, 64}
\* cycle durations (next_usecs - current_usecs): at 64 bpm the shorter one
\* advances the window by one grid unit, the longer one by one bar
CycleUsecs == {0, 937500 \div GridPerBar, 937500}
NoteLenSamples == {-1, Bar}
NoteLenAvgs == {1}
TimeIncrs == {1}
ScaleOffsets == {0}
Velocities == {100}
Channels == {1}
RootNotes == {[pitch_class |-> 0, octave |-> 4]}
EuclidShapes == {<<1, 2>>, <<2, 1>>}
Statuses == {"Stop", "Start", "Pause", "Shutdown"}
MaxLog == MaxSeqs * 2 * MaxNbEvents + 2
Jitters == {0, 1}
NoteLenTargets == {0, Bar + 1}
TransposeTargets == {[pitch_class |-> 0, octave |-> 4], [pitch_class |-> 2, octave |-> 4]}

Min(a, b) == IF a < b THEN a ELSE b
Max(a, b) == IF a < b THEN b ELSE a
Clamp(x, lo, hi) == IF x < lo THEN lo ELSE IF x > hi THEN hi ELSE x

\* Rust's % on floats (fmod): the result takes the sign of the dividend.
FMod(a, b) == IF a >= 0 THEN a % b ELSE -((-a) % b)

\* (e.bar_pos * 1_000.) as u32 : the cast saturates a negative float to 0
SortKey(bar_pos) == IF bar_pos < 0 THEN 0 ELSE (bar_pos * KeyScale) \div GridPerBar

\* Vec::sort_by_key is a stable sort: insertion after the last element whose
\* key is not greater
InsertByKey(s, e) ==
    LET n == Cardinality({i \in 1..Len(s) : SortKey(s[i].bar_pos) <= SortKey(e.bar_pos)})
    IN SubSeq(s, 1, n) \o <<e>> \o SubSeq(s, n + 1, Len(s))

RECURSIVE SortFrom(_, _)
SortFrom(acc, rest) ==
    IF rest = <<>> THEN acc ELSE SortFrom(InsertByKey(acc, Head(rest)), Tail(rest))

SortByKey(s) == SortFrom(<<>>, s)

note_to_midi_pitch(note) == (note.octave + 1) * 12 + note.pitch_class

\* PitchClass::from_u8 of rust_music_theory: the class of a value is its
\* remainder by 12 (C = 0 .. B = 11)
PitchClassFromU8(val) == val % 12

midi_pitch_to_note_no_shift(pitch) ==
    [ok |-> TRUE, note |-> [pitch_class |-> PitchClassFromU8(pitch), octave |-> pitch \div 12]]

midi_pitch_to_note(pitch) ==
    IF pitch \div 12 < 1 THEN [ok |-> FALSE, note |-> [pitch_class |-> 0, octave |-> 0]]
    ELSE [ok |-> TRUE,
          note |-> [pitch_class |-> PitchClassFromU8(pitch), octave |-> (pitch \div 12) - 1]]

RECURSIVE Concat(_)
Concat(ss) == IF ss = <<>> THEN <<>> ELSE Head(ss) \o Concat(Tail(ss))

\* gen_euclid_rec: the while-let loop pairs the last groups of head and tail
RECURSIVE gen_euclid_rec(_, _)
gen_euclid_rec(head, tail) ==
    IF head = <<>> THEN Concat(tail)
    ELSE LET k == Min(Len(head), Len(tail))
             new_head == [j \in 1..k |-> head[Len(head) + 1 - j] \o tail[Len(tail) + 1 - j]]
             head_left == SubSeq(head, 1, Len(head) - k)
             tail_left == SubSeq(tail, 1, Len(tail) - k)
             tail2 == IF tail_left = <<>> /\ head_left # <<>> THEN head_left ELSE tail_left
         IN IF Len(tail2) <= 1 THEN Concat(new_head) \o Concat(tail2)
            ELSE gen_euclid_rec(new_head, tail2)

gen_euclid_unpaired(pulses, steps) ==
    IF steps < pulses THEN [ok |-> FALSE, v |-> <<>>]
    ELSE [ok |-> TRUE, v |-> [i \in 1..steps |-> IF i <= pulses THEN 1 ELSE 0]]

gen_euclid_strict(pulses, steps) ==
    IF steps <= pulses THEN [ok |-> FALSE, v |-> <<>>]
    ELSE [ok |-> TRUE,
          v |-> gen_euclid_rec([i \in 1..pulses |-> <<1>>], [i \in 1..(steps - pulses) |-> <<0>>])]

gen_euclid_rests_first(pulses, steps) ==
    IF steps < pulses THEN [ok |-> FALSE, v |-> <<>>]
    ELSE [ok |-> TRUE,
          v |-> gen_euclid_rec([i \in 1..(steps - pulses) |-> <<0>>], [i \in 1..pulses |-> <<1>>])]

gen_euclid(pulses, steps) ==
    IF steps < pulses THEN [ok |-> FALSE, v |-> <<>>]
    ELSE [ok |-> TRUE,
          v |-> gen_euclid_rec([i \in 1..pulses |-> <<1>>], [i \in 1..(steps - pulses) |-> <<0>>])]

MidiNote(on_off, channel, pitch, velocity) ==
    [on_off |-> on_off, channel |-> channel, pitch |-> pitch, velocity |-> velocity]

Event(note, bar_pos) == [e_type |-> note, bar_pos |-> bar_pos]

\* one draw of the generators' random sources for one note
Samples == [pitch : ScaleOffsets, velocity : Velocities, note_len : NoteLenSamples,
            time_incr : TimeIncrs]

RECURSIVE RandFrom(_, _, _, _)
RandFrom(p, smp, i, step_offset) ==
    IF i > p.ty.nb_events THEN <<>>
    ELSE LET s == smp[i]
             pitch == note_to_midi_pitch(p.root_note) + s.pitch
             on == Event(MidiNote(TRUE, p.midi_ch, pitch, s.velocity), step_offset)
             off == Event(MidiNote(FALSE, p.midi_ch, pitch, s.velocity),
                          FMod(step_offset + s.note_len, p.loop_length))
         IN <<on, off>> \o RandFrom(p, smp, i + 1, FMod(step_offset + s.time_incr, p.loop_length))

gen_rand_midi_vec(p, smp) ==
    IF p.ty.kind = "Random" THEN RandFrom(p, smp, 1, 0) ELSE <<>>

RECURSIVE EuclidFrom(_, _, _, _, _)
EuclidFrom(p, smp, rhythm, i, step_len) ==
    IF i > Len(rhythm) THEN <<>>
    ELSE LET s == smp[i]
             time_offset == (i - 1) * step_len
             pitch == note_to_midi_pitch(p.root_note)
             on == Event(MidiNote(TRUE, p.midi_ch, pitch, s.velocity), time_offset)
             off == Event(MidiNote(FALSE, p.midi_ch, pitch, s.velocity),
                          FMod(time_offset + s.note_len, p.loop_length))
         IN (IF rhythm[i] = 0 THEN <<>> ELSE <<on, off>>)
            \o EuclidFrom(p, smp, rhythm, i + 1, step_len)

\* loop_length % steps (in bars) is loop_length % (steps * GridPerBar) on the grid;
\* for steps = 0 the float remainder is NaN, which differs from 0.
gen_euclid_midi_vec(p, smp) ==
    IF p.ty.kind # "Euclid" THEN [ok |-> TRUE, v |-> <<>>]
    ELSE IF p.ty.steps = 0 \/ p.loop_length % (p.ty.steps * GridPerBar) # 0
    THEN [ok |-> TRUE, v |-> <<>>]
    ELSE LET r == gen_euclid(p.ty.pulses, p.ty.steps)
         IN IF ~r.ok THEN [ok |-> FALSE, v |-> <<>>]
            ELSE [ok |-> TRUE,
                  v |-> EuclidFrom(p, smp, r.v, 1, p.loop_length \div p.ty.steps)]

(***************************************************************************)
(* State.                                                                  *)
(*   params, internal, base_seqs, fx_procs : the fields of Sequencer       *)
(*   rt_pc, rt_idx, rt_loop_len : position and locals of the jack process  *)
(*        callback (the realtime thread)                                   *)
(*   out : what the callback has written to the cycle's MidiWriter         *)
(*   rt_head : the event_head value incr_event_head has read               *)
(*   ctl_pc : position of the control (OSC) thread                         *)
(*   ctl_loc : locals of the control thread's handler (the base sequence   *)
(*        get_base_seq found, the events gen_fill has generated)           *)
(*   lk : the state of every RwLock (read guards per thread, writer bit)   *)
(***************************************************************************)
VARIABLES params, internal, base_seqs, fx_procs, rt_pc, rt_idx, rt_loop_len, rt_head, out,
          ctl_pc, ctl_loc, lk

seqVars == <<params, internal, base_seqs, fx_procs>>
rtVars == <<rt_pc, rt_idx, rt_loop_len, rt_head, out>>
lockVars == <<ctl_loc, lk>>
vars == <<params, internal, base_seqs, fx_procs, rt_pc, rt_idx, rt_loop_len, rt_head, out,
          ctl_pc, ctl_loc, lk>>

\* the sequencer-level locks and the locks of the base sequence at index i
Lock(name) == <<name, 0>>
SeqLock(name, i) == <<name, i>>
Locks ==
    ({"params", "internal", "base_seqs", "fx_procs"} \X {0})
    \cup ({"bs_params", "event_head", "event_buffer", "fx_proc_ids"} \X (1..MaxSeqs))

FreeLock == [rt |-> 0, ctl |-> 0, w |-> "none"]
NoLoc == [seq |-> 0, events |-> <<>>]

\* Sequencer::new and SeqInternal::new
Init ==
    /\ \E bpm \in Bpms : params = [status |-> "Stop", bpm |-> bpm, incr |-> 0]
    /\ internal = [status |-> "Silence", j_window_time_start |-> 0, j_window_time_end |-> 0]
    /\ base_seqs = <<>>
    /\ fx_procs = <<>>
    /\ rt_pc = "idle"
    /\ rt_idx = 0
    /\ rt_loop_len = 0
    /\ rt_head = 0
    /\ out = <<>>
    /\ ctl_pc = "idle"
    /\ ctl_loc = NoLoc
    /\ lk = [l \in Locks |-> FreeLock]

(***************************************************************************)
(* BaseSeq                                                                 *)
(***************************************************************************)
BaseSeqTypes ==
    {[kind |-> "Random", nb_events |-> n, pulses |-> 0, steps |-> 0] : n \in 0..MaxNbEvents}
    \cup {[kind |-> "Euclid", nb_events |-> 0, pulses |-> sh[1], steps |-> sh[2]] :
            sh \in EuclidShapes}

BaseSeqParams ==
    [ty : BaseSeqTypes, loop_length : LoopLens, root_note : RootNotes,
     note_len_avg : NoteLenAvgs, midi_ch : Channels]

\* how many notes a generator draws samples for
NbDraws(p) == IF p.ty.kind = "Random" THEN p.ty.nb_events ELSE p.ty.steps

\* the 0-based indices binary_search_by_key may return for key k in a buffer
\* sorted by SortKey: any match, or the insertion point when there is none
BinarySearch(buf, k) ==
    LET hits == {i \in 0..(Len(buf) - 1) : SortKey(buf[i + 1].bar_pos) = k}
    IN IF hits # {} THEN hits
       ELSE {Cardinality({i \in 1..Len(buf) : SortKey(buf[i].bar_pos) < k})}

\* sync_event_head: the heads it may write (one per result of the binary search)
HeadAfter(buf, found) ==
    LET later == {j \in found..(Len(buf) - 1) : buf[j + 1].bar_pos > buf[found + 1].bar_pos}
        new_head == IF found = Len(buf) THEN 0
                    ELSE IF later # {} THEN CHOOSE j \in later : \A k \in later : j <= k
                    ELSE 0
    IN Min(new_head, Max(Len(buf) - 1, 0))

sync_event_head(buf, loop_length, window_end) ==
    LET key == KeyScale * (FMod(window_end, loop_length) \div GridPerBar)
    IN {HeadAfter(buf, found) : found \in BinarySearch(buf, key)}

\* gen_fill: the generated and sorted buffer, or the generator's error
gen_fill(p, smp) ==
    LET r == IF p.ty.kind = "Random" THEN [ok |-> TRUE, v |-> gen_rand_midi_vec(p, smp)]
             ELSE gen_euclid_midi_vec(p, smp)
    IN [ok |-> r.ok, v |-> SortByKey(r.v)]

\* get_base_seq: index of the first base sequence with the id, 0 when absent
get_base_seq(id) ==
    LET hits == {i \in 1..Len(base_seqs) : base_seqs[i].id = id}
    IN IF hits = {} THEN 0 ELSE CHOOSE i \in hits : \A j \in hits : i <= j

\* get_fx_proc
get_fx_proc(id) ==
    LET hits == {i \in 1..Len(fx_procs) : fx_procs[i].id = id}
    IN IF hits = {} THEN 0 ELSE CHOOSE i \in hits : \A j \in hits : i <= j

Ids == 0..MaxIncr

\* the control thread can start a handler, and the handlers of this
\* specification run between two process cycles
CtlReady == ctl_pc = "idle" /\ rt_pc = "idle"

(***************************************************************************)
(* Sequencer: the control-plane operations                                 *)
(***************************************************************************)
add_base_seq(p, smp) ==
    /\ CtlReady
    /\ LET g == gen_fill(p, smp)
       IN IF ~g.ok THEN ctl_pc' = "err" /\ UNCHANGED <<params, base_seqs>>
          ELSE \E h \in sync_event_head(g.v, p.loop_length, internal.j_window_time_end) :
                 /\ base_seqs' = Append(base_seqs,
                        [id |-> params.incr, params |-> p, event_head |-> h,
                         event_buffer |-> g.v, fx_proc_ids |-> <<>>])
                 /\ params' = [params EXCEPT !.incr = @ + 1]
                 /\ UNCHANGED ctl_pc
    /\ UNCHANGED <<internal, fx_procs, rtVars, lockVars>>

AddBaseSeq ==
    /\ Len(base_seqs) < MaxSeqs
    /\ params.incr < MaxIncr
    /\ \E p \in BaseSeqParams : \E smp \in [1..NbDraws(p) -> Samples] : add_base_seq(p, smp)

ReplaceSeq(i, bs) == [base_seqs EXCEPT ![i] = bs]

add_fx_processor_early_incr(base_seq_id) ==
    /\ CtlReady
    /\ LET i == get_base_seq(base_seq_id)
       IN /\ params' = [params EXCEPT !.incr = @ + 1]
          /\ IF i = 0 THEN ctl_pc' = "err" /\ UNCHANGED <<base_seqs, fx_procs>>
             ELSE /\ base_seqs' = [base_seqs EXCEPT ![i].fx_proc_ids = Append(@, params.incr)]
                  /\ fx_procs' = Append(fx_procs, [id |-> params.incr])
                  /\ UNCHANGED ctl_pc
    /\ UNCHANGED <<internal, rtVars, lockVars>>

add_fx_processor(base_seq_id) ==
    /\ CtlReady
    /\ LET i == get_base_seq(base_seq_id)
       IN IF i = 0 THEN ctl_pc' = "err" /\ UNCHANGED <<params, base_seqs, fx_procs>>
          ELSE /\ base_seqs' = [base_seqs EXCEPT ![i].fx_proc_ids = Append(@, params.incr)]
               /\ fx_procs' = Append(fx_procs, [id |-> params.incr])
               /\ params' = [params EXCEPT !.incr = @ + 1]
               /\ UNCHANGED ctl_pc
    /\ UNCHANGED <<internal, rtVars, lockVars>>

regen_base_seq(base_seq_id, smp) ==
    /\ CtlReady
    /\ LET i == get_base_seq(base_seq_id)
       IN IF i = 0 THEN ctl_pc' = "err" /\ UNCHANGED base_seqs
          ELSE LET bs == base_seqs[i]
                   g == gen_fill(bs.params, smp)
               IN IF ~g.ok THEN ctl_pc' = "err" /\ UNCHANGED base_seqs
                  ELSE /\ \E h \in sync_event_head(g.v, bs.params.loop_length,
                                                   internal.j_window_time_end) :
                            base_seqs' = ReplaceSeq(i, [bs EXCEPT !.event_buffer = g.v,
                                                                  !.event_head = h])
                       /\ UNCHANGED ctl_pc
    /\ UNCHANGED <<params, internal, fx_procs, rtVars, lockVars>>

\* BaseSeq::change_note_len up to its call of sync_event_head
NoteLenShift(buf, target_note_len, p) ==
    SortByKey([k \in 1..Len(buf) |->
        IF buf[k].e_type.on_off THEN buf[k]
        ELSE [buf[k] EXCEPT !.bar_pos =
                FMod(buf[k].bar_pos + target_note_len - p.note_len_avg, p.loop_length)]])

\* BaseSeq::change_note_len up to the same point, with the params it stores
base_seq_change_note_len(bs, target_note_len) ==
    [bs EXCEPT !.event_buffer = NoteLenShift(@, target_note_len, bs.params),
               !.params.note_len_avg = target_note_len]

\* sync_event_head is called while the guards `params` and `event_buff` (both
\* write guards) are alive: its event_buffer.read() never returns, and the control
\* thread stays blocked holding them, the mapped base_seqs read guard and the
\* internal read guard taken by Sequencer::change_note_len.
change_note_len(base_seq_id, target_note_len) ==
    /\ CtlReady
    /\ LET i == get_base_seq(base_seq_id)
       IN IF i = 0 THEN ctl_pc' = "err" /\ UNCHANGED base_seqs
          ELSE /\ base_seqs' = ReplaceSeq(i,
                                  base_seq_change_note_len(base_seqs[i], target_note_len))
               /\ ctl_pc' = "blocked"
    /\ UNCHANGED <<params, internal, fx_procs, rtVars, lockVars>>

change_loop_len(base_seq_id, target_loop_len) ==
    /\ CtlReady
    /\ LET i == get_base_seq(base_seq_id)
       IN IF i = 0 THEN ctl_pc' = "err" /\ UNCHANGED base_seqs
          ELSE /\ base_seqs' = [base_seqs EXCEPT ![i].params.loop_length = target_loop_len]
               /\ UNCHANGED ctl_pc
    /\ UNCHANGED <<params, internal, fx_procs, rtVars, lockVars>>

set_nb_events(base_seq_id, target_nb_events, smp) ==
    /\ CtlReady
    /\ LET i == get_base_seq(base_seq_id)
       IN IF i = 0 \/ base_seqs[i].params.ty.kind # "Random"
          THEN ctl_pc' = "err" /\ UNCHANGED base_seqs
          ELSE LET bs == base_seqs[i]
                   p == [bs.params EXCEPT !.ty.nb_events = target_nb_events]
                   g == gen_fill(p, smp)
               IN /\ \E h \in sync_event_head(g.v, p.loop_length,
                                                internal.j_window_time_end) :
                         base_seqs' = ReplaceSeq(i, [bs EXCEPT !.params = p,
                                                               !.event_buffer = g.v,
                                                               !.event_head = h])
                  /\ UNCHANGED ctl_pc
    /\ UNCHANGED <<params, internal, fx_procs, rtVars, lockVars>>

TransposeBufNoClamp(buf, pitch_diff) ==
    [k \in 1..Len(buf) |-> [buf[k] EXCEPT !.e_type.pitch = @ + pitch_diff]]

TransposeBuf(buf, pitch_diff) ==
    [k \in 1..Len(buf) |->
        [buf[k] EXCEPT !.e_type.pitch = Clamp(@ + pitch_diff, 0, NbPitches - 1)]]

base_seq_transpose_keep_root(bs, target_root_note) ==
    LET pitch_diff == note_to_midi_pitch(target_root_note)
                      - note_to_midi_pitch(bs.params.root_note)
    IN [bs EXCEPT !.event_buffer = TransposeBuf(@, pitch_diff)]

\* BaseSeq::transpose
base_seq_transpose(bs, target_root_note) ==
    LET pitch_diff == note_to_midi_pitch(target_root_note)
                      - note_to_midi_pitch(bs.params.root_note)
    IN [bs EXCEPT !.event_buffer = TransposeBuf(@, pitch_diff),
                  !.params.root_note = target_root_note]

transpose(base_seq_id, target_root_note) ==
    /\ CtlReady
    /\ LET i == get_base_seq(base_seq_id)
       IN IF i = 0 THEN ctl_pc' = "err" /\ UNCHANGED base_seqs
          ELSE /\ base_seqs' = ReplaceSeq(i, base_seq_transpose(base_seqs[i], target_root_note))
               /\ UNCHANGED ctl_pc
    /\ UNCHANGED <<params, internal, fx_procs, rtVars, lockVars>>

empty ==
    /\ CtlReady
    /\ base_seqs' = <<>>
    /\ params' = [params EXCEPT !.incr = 0]
    /\ UNCHANGED <<internal, fx_procs, rtVars, ctl_pc, lockVars>>

remove_base_seq(base_seq_id) ==
    /\ CtlReady
    /\ LET i == get_base_seq(base_seq_id)
       IN IF i = 0 THEN ctl_pc' = "err" /\ UNCHANGED base_seqs
          ELSE /\ base_seqs' = SubSeq(base_seqs, 1, i - 1)
                                \o SubSeq(base_seqs, i + 1, Len(base_seqs))
               /\ UNCHANGED ctl_pc
    /\ UNCHANGED <<params, internal, fx_procs, rtVars, lockVars>>

\* the OSC handlers /gisele/set_status and /gisele/set_bpm
set_status(status) ==
    /\ CtlReady
    /\ params' = [params EXCEPT !.status = status]
    /\ UNCHANGED <<internal, base_seqs, fx_procs, rtVars, ctl_pc, lockVars>>

set_bpm(bpm) ==
    /\ CtlReady
    /\ params' = [params EXCEPT !.bpm = bpm]
    /\ UNCHANGED <<internal, base_seqs, fx_procs, rtVars, ctl_pc, lockVars>>

\* the handler has returned Err: osc_handling's caller logs it and goes on
CtlReturn ==
    /\ ctl_pc = "err"
    /\ ctl_pc' = "idle"
    /\ UNCHANGED <<seqVars, rtVars, lockVars>>

AddFxProcessor ==
    /\ params.incr < MaxIncr
    /\ Len(fx_procs) < MaxFx
    /\ \E id \in Ids : add_fx_processor(id)
RegenBaseSeq ==
    \E id \in Ids :
        LET i == get_base_seq(id)
            n == IF i = 0 THEN 0 ELSE NbDraws(base_seqs[i].params)
        IN \E smp \in [1..n -> Samples] : regen_base_seq(id, smp)
ChangeNoteLen == \E id \in Ids : \E t \in NoteLenTargets : change_note_len(id, t)
ChangeLoopLen == \E id \in Ids : \E t \in LoopLens : change_loop_len(id, t)
SetNbEvents ==
    \E id \in Ids : \E n \in 0..MaxNbEvents : \E smp \in [1..n -> Samples] :
        set_nb_events(id, n, smp)
Transpose == \E id \in Ids : \E t \in TransposeTargets : transpose(id, t)
Empty == empty
RemoveBaseSeq == \E id \in Ids : remove_base_seq(id)
SetStatus == \E s \in Statuses : set_status(s)
SetBpm == \E b \in Bpms : set_bpm(b)

(***************************************************************************)
(* SeqInternal::event_in_cycle                                             *)
(***************************************************************************)
event_in_cycle(int, event_time, loop_len) ==
    LET win_start_looped == FMod(int.j_window_time_start, loop_len)
        win_end_looped == FMod(int.j_window_time_end, loop_len)
    IN IF win_start_looped < win_end_looped
       THEN win_start_looped <= event_time /\ event_time < win_end_looped
       ELSE win_start_looped <= event_time \/ event_time < win_end_looped

(***************************************************************************)
(* The MidiWriter of the cycle: each written message keeps, beside the     *)
(* note, the base sequence and the buffer index it was cloned from         *)
(* (seq = -1 for the notes-off tail).                                      *)
(***************************************************************************)
ByteWidth == 256

get_raw_note_on_bytes_from_zero(note) ==
    <<((((8 + (IF note.on_off THEN 1 ELSE 0)) * 16) % ByteWidth) + (note.channel % ByteWidth))
        % ByteWidth,
      note.pitch, note.velocity>>

\* u8 arithmetic: each operation keeps the low eight bits
get_raw_note_on_bytes(note) ==
    <<((((8 + (IF note.on_off THEN 1 ELSE 0)) * 16) % ByteWidth)
        + ((note.channel - 1) % ByteWidth)) % ByteWidth,
      note.pitch, note.velocity>>

Written(note, bar_pos, seq, idx) ==
    [note |-> note, bytes |-> get_raw_note_on_bytes(note), bar_pos |-> bar_pos, seq |-> seq,
     idx |-> idx]

RECURSIVE SortedSeqOf(_)
SortedSeqOf(S) ==
    IF S = {} THEN <<>>
    ELSE LET m == CHOOSE x \in S : \A y \in S : x <= y
         IN <<m>> \o SortedSeqOf(S \ {m})

notes_off_no_dedup(bss) ==
    LET midi_chs == [i \in 1..Len(bss) |-> bss[i].params.midi_ch]
    IN [k \in 1..(Len(midi_chs) * NbPitches) |->
          Written(MidiNote(FALSE, midi_chs[((k - 1) \div NbPitches) + 1],
                           (k - 1) % NbPitches, 1), 0, -1, -1)]

\* Sequencer::notes_off: the channels in use, sorted and deduplicated, then a
\* note-off for every pitch on each of them
notes_off(bss) ==
    LET midi_chs == SortedSeqOf({bss[i].params.midi_ch : i \in 1..Len(bss)})
    IN [k \in 1..(Len(midi_chs) * NbPitches) |->
          Written(MidiNote(FALSE, midi_chs[((k - 1) \div NbPitches) + 1],
                           (k - 1) % NbPitches, 1), 0, -1, -1)]

\* Sequencer::reset_base_seqs
reset_base_seqs(bss) == [i \in 1..Len(bss) |-> [bss[i] EXCEPT !.event_head = 0]]

\* bars the window advances in one cycle: bpm * (next_usecs - current_usecs) / 6e7
WindowIncrFourBeats(bpm, usecs) == (bpm * usecs * GridPerBar) \div (4 * UsecPerMinute)

WindowIncr(bpm, usecs) == (bpm * usecs * GridPerBar) \div UsecPerMinute

(***************************************************************************)
(* The jack process callback.                                              *)
(*   TickBegin : the status handling, the window increment and the         *)
(*               pause/stop branch                                         *)
(*   TickFor   : the head of the loop over base_seqs                       *)
(*   TickLoop  : one iteration of the emission loop of one base sequence   *)
(*   TickReturn: the return of the callback, which drops the MidiWriter    *)
(***************************************************************************)
\* the status handling at the top of the callback
next_status_shutdown_plays(control, observed) ==
    IF control \in {"Start", "Shutdown"} THEN "Playing" ELSE observed

next_status(control, observed) == IF control = "Start" THEN "Playing" ELSE observed

halting_stop_only(control) == control = "Stop"

\* the condition of the pause/stop branch
halting(control) == control = "Pause" \/ control = "Stop"

\* The callback takes internal.write() first: it cannot start while the control
\* thread is blocked with the internal read guard.  A handler's return is part of
\* the handler, so the callback starts when the control thread is idle.
TickBegin(usecs) ==
    /\ rt_pc = "idle"
    /\ ctl_pc = "idle"
    /\ LET status == next_status(params.status, internal.status)
           w_end == internal.j_window_time_end + WindowIncr(params.bpm, usecs)
       IN IF status = "Silence"
          THEN /\ rt_pc' = "return"
               /\ internal' = [internal EXCEPT !.status = status]
               /\ out' = <<>>
               /\ UNCHANGED <<base_seqs, rt_idx>>
          ELSE IF halting(params.status)
          THEN /\ rt_pc' = "return"
               /\ out' = notes_off(base_seqs)
               /\ IF params.status = "Stop"
                  THEN /\ base_seqs' = reset_base_seqs(base_seqs)
                       /\ internal' = [status |-> "Silence",
                                       j_window_time_start |-> 0,
                                       j_window_time_end |-> 0]
                  ELSE /\ UNCHANGED base_seqs
                       /\ internal' = [status |-> "Silence",
                                       j_window_time_start |-> internal.j_window_time_end,
                                       j_window_time_end |-> w_end]
               /\ UNCHANGED rt_idx
          ELSE /\ rt_pc' = "for"
               /\ rt_idx' = 1
               /\ internal' = [status |-> status,
                               j_window_time_start |-> internal.j_window_time_end,
                               j_window_time_end |-> w_end]
               /\ out' = <<>>
               /\ UNCHANGED base_seqs
    /\ UNCHANGED <<params, fx_procs, rt_loop_len, rt_head, ctl_pc, lockVars>>

TickFor ==
    /\ rt_pc = "for"
    /\ IF rt_idx <= Len(base_seqs)
       THEN /\ rt_loop_len' = base_seqs[rt_idx].params.loop_length
            /\ rt_pc' = "loop"
       ELSE /\ rt_pc' = "return"
            /\ UNCHANGED rt_loop_len
    /\ UNCHANGED <<seqVars, rt_idx, rt_head, out, ctl_pc, lockVars>>

TickReturn ==
    /\ rt_pc = "return"
    /\ rt_pc' = "idle"
    /\ rt_idx' = 0
    /\ rt_loop_len' = 0
    /\ out' = <<>>
    /\ UNCHANGED <<seqVars, rt_head, ctl_pc, lockVars>>

\* FxProcessor::process: (pitch as f64 + sample) as u8, a saturating cast
process(note, jitter) == [note EXCEPT !.pitch = Clamp(@ + jitter, 0, 255)]

\* Sequencer::process_event: the processors that are found act in order
RECURSIVE process_event(_, _, _)
process_event(proc_ids, note, jit) ==
    IF proc_ids = <<>> THEN note
    ELSE process_event(Tail(proc_ids),
                       IF get_fx_proc(Head(proc_ids)) = 0 THEN note
                       ELSE process(note, Head(jit)),
                       Tail(jit))

beyond_loop_strict(loop_len, bar_pos) == loop_len < bar_pos

\* if loop_len <= next_event.bar_pos: the event lies beyond the loop and is skipped
beyond_loop(loop_len, bar_pos) == loop_len <= bar_pos

\* BaseSeq::incr_event_head
incr_event_head_no_wrap(bs) == [bs EXCEPT !.event_head = @ + 1]

incr_event_head(bs) == [bs EXCEPT !.event_head = (@ + 1) % Len(bs.event_buffer)]

\* MidiWriter::write; the log of one cycle holds at most MaxLog sequence events
send_event(w) == IF Len(out) < MaxLog THEN Append(out, w) ELSE out

TickLoop ==
    /\ rt_pc = "loop"
    /\ LET bs == base_seqs[rt_idx]
           curr_event_head == bs.event_head
       IN IF curr_event_head < Len(bs.event_buffer)
          THEN LET next_event == bs.event_buffer[curr_event_head + 1]
                   push_event == event_in_cycle(internal, next_event.bar_pos, rt_loop_len)
               IN IF beyond_loop(rt_loop_len, next_event.bar_pos)
                  THEN /\ base_seqs' = ReplaceSeq(rt_idx, incr_event_head(bs))
                       /\ UNCHANGED <<out, rt_pc, rt_idx>>
                  ELSE IF push_event
                  THEN /\ \E jit \in [1..Len(bs.fx_proc_ids) -> Jitters] :
                             out' = send_event(Written(
                                       process_event(bs.fx_proc_ids, next_event.e_type, jit),
                                       next_event.bar_pos, bs.id, curr_event_head))
                       /\ base_seqs' = ReplaceSeq(rt_idx, incr_event_head(bs))
                       /\ UNCHANGED <<rt_pc, rt_idx>>
                  ELSE /\ rt_pc' = "for"
                       /\ rt_idx' = rt_idx + 1
                       /\ UNCHANGED <<base_seqs, out>>
          ELSE /\ rt_pc' = "for"
               /\ rt_idx' = rt_idx + 1
               /\ UNCHANGED <<base_seqs, out>>
    /\ UNCHANGED <<params, internal, fx_procs, rt_loop_len, rt_head, ctl_pc, lockVars>>

\* the model follows the window up to `cap`
InWindowCap(usecs, cap) == internal.j_window_time_end + WindowIncr(params.bpm, usecs) <= cap

Tick == \E usecs \in CycleUsecs : InWindowCap(usecs, MaxWindow) /\ TickBegin(usecs)

Next ==
    \/ AddBaseSeq
    \/ AddFxProcessor
    \/ RegenBaseSeq
    \/ ChangeNoteLen
    \/ ChangeLoopLen
    \/ SetNbEvents
    \/ Transpose
    \/ Empty
    \/ RemoveBaseSeq
    \/ SetStatus
    \/ SetBpm
    \/ CtlReturn
    \/ Tick
    \/ TickFor
    \/ TickLoop
    \/ TickReturn

Spec == Init /\ [][Next]_vars

\* the realtime thread, once in the callback, keeps running it
FairSpec == Spec /\ WF_vars(TickFor) /\ WF_vars(TickLoop) /\ WF_vars(TickReturn)

(***************************************************************************)
(* Several base sequences on a few MIDI channels, added, removed and       *)
(* played: the specification of the notes-off tail.                        *)
(***************************************************************************)
DuoSeqs == MaxSeqs + 2
DuoChannels == {1, 2}
DuoParams ==
    [ty : {[kind |-> "Random", nb_events |-> 1, pulses |-> 0, steps |-> 0]},
     loop_length : {2 * Bar}, root_note : RootNotes, note_len_avg : NoteLenAvgs,
     midi_ch : DuoChannels]

AddDuoSeq ==
    /\ Len(base_seqs) < DuoSeqs
    /\ params.incr < DuoSeqs
    /\ \E p \in DuoParams : \E s \in {x \in Samples : x.note_len = Bar} :
          add_base_seq(p, <<s>>)

DuoNext ==
    \/ AddDuoSeq
    \/ RemoveBaseSeq
    \/ Empty
    \/ SetStatus
    \/ SetBpm
    \/ CtlReturn
    \/ Tick
    \/ TickFor
    \/ TickLoop
    \/ TickReturn

DuoSpec == Init /\ [][DuoNext]_vars

(***************************************************************************)
(* Base sequences added to the stopped sequencer, which is then started    *)
(* and left to play: the specification of the first traversal of a loop.   *)
(***************************************************************************)
FreshWindowBars == 8
FreshParams ==
    [ty : {[kind |-> "Random", nb_events |-> 1, pulses |-> 0, steps |-> 0]},
     loop_length : LoopLens, root_note : RootNotes, note_len_avg : NoteLenAvgs,
     midi_ch : Channels]
    \cup
    [ty : {[kind |-> "Euclid", nb_events |-> 0, pulses |-> 3, steps |-> 8]},
     loop_length : {8 * Bar}, root_note : RootNotes, note_len_avg : NoteLenAvgs,
     midi_ch : Channels]

AddFreshSeq ==
    /\ params.status = "Stop"
    /\ internal.status = "Silence"
    /\ internal.j_window_time_end = 0
    /\ Len(base_seqs) < MaxSeqs
    /\ \E p \in FreshParams : \E n \in NoteLenSamples :
          add_base_seq(p, [i \in 1..NbDraws(p) |->
                             [pitch |-> 0, velocity |-> 100, note_len |-> n, time_incr |-> 1]])

StartPlayback ==
    /\ params.status = "Stop"
    /\ set_status("Start")

FreshTick ==
    \E usecs \in CycleUsecs : InWindowCap(usecs, FreshWindowBars * Bar) /\ TickBegin(usecs)

FreshNext ==
    \/ AddFreshSeq
    \/ StartPlayback
    \/ FreshTick
    \/ TickFor
    \/ TickLoop
    \/ TickReturn

FreshSpec == Init /\ [][FreshNext]_vars

(***************************************************************************)
(* Base sequences at the ends of the MIDI pitch range with pitch-jitter     *)
(* processors attached: the specification of FxProcessor::process.         *)
(***************************************************************************)
JitterRoots == {[pitch_class |-> 0, octave |-> 0], [pitch_class |-> 7, octave |-> 9]}
JitterParams ==
    [ty : {[kind |-> "Random", nb_events |-> 1, pulses |-> 0, steps |-> 0]},
     loop_length : {2 * Bar}, root_note : JitterRoots \cup RootNotes,
     note_len_avg : NoteLenAvgs, midi_ch : Channels]

AddJitterSeq ==
    /\ Len(base_seqs) < MaxSeqs
    /\ params.incr < MaxIncr
    /\ \E p \in JitterParams : \E s \in {x \in Samples : x.note_len = Bar} :
          add_base_seq(p, <<s>>)

JitterNext ==
    \/ AddJitterSeq
    \/ AddFxProcessor
    \/ RemoveBaseSeq
    \/ SetStatus
    \/ CtlReturn
    \/ Tick
    \/ TickFor
    \/ TickLoop
    \/ TickReturn

JitterSpec == Init /\ [][JitterNext]_vars

(***************************************************************************)
(* Base sequences whose notes lie on or above their root, transposed within *)
(* and up to the top of the MIDI pitch range: the specification of          *)
(* BaseSeq::transpose.                                                      *)
(***************************************************************************)
PitchOffsets == {0, 7}
WideRoots == RootNotes \cup TransposeTargets \cup {[pitch_class |-> 7, octave |-> 9]}
WideParams ==
    [ty : {[kind |-> "Random", nb_events |-> 1, pulses |-> 0, steps |-> 0]},
     loop_length : {2 * Bar}, root_note : RootNotes,
     note_len_avg : NoteLenAvgs, midi_ch : Channels]

AddWideSeq ==
    /\ Len(base_seqs) < MaxSeqs
    /\ params.incr < MaxIncr
    /\ \E p \in WideParams : \E o \in PitchOffsets :
          add_base_seq(p, <<[pitch |-> o, velocity |-> 100, note_len |-> Bar, time_incr |-> 1]>>)

TransposeWide == \E id \in Ids : \E t \in WideRoots : transpose(id, t)

WideNext ==
    \/ AddWideSeq
    \/ TransposeWide
    \/ RemoveBaseSeq
    \/ SetStatus
    \/ CtlReturn
    \/ Tick
    \/ TickFor
    \/ TickLoop
    \/ TickReturn

WideSpec == Init /\ [][WideNext]_vars

(***************************************************************************)
(* Euclidean base sequences of the shapes of test_euclid, one step per bar, *)
(* added, played and removed: the specification of gen_euclid.             *)
(***************************************************************************)
EuclidTable ==
    {<<0, 0, <<>>>>,
     <<0, 1, <<0>>>>,
     <<1, 1, <<1>>>>,
     <<1, 2, <<1, 0>>>>,
     <<0, 3, <<0, 0, 0>>>>,
     <<3, 3, <<1, 1, 1>>>>,
     <<2, 3, <<1, 0, 1>>>>,
     <<1, 3, <<1, 0, 0>>>>,
     <<1, 4, <<1, 0, 0, 0>>>>,
     <<3, 4, <<1, 0, 1, 1>>>>,
     <<2, 5, <<1, 0, 1, 0, 0>>>>,
     <<5, 8, <<1, 0, 1, 1, 0, 1, 1, 0>>>>,
     <<7, 8, <<1, 0, 1, 1, 1, 1, 1, 1>>>>,
     <<4, 12, <<1, 0, 0, 1, 0, 0, 1, 0, 0, 1, 0, 0>>>>,
     <<13, 24, <<1, 0, 1, 1, 0, 1, 0, 1, 0, 1, 0, 1, 0, 1, 1, 0, 1, 0, 1, 0, 1, 0, 1, 0>>>>}

TableParams ==
    {[ty |-> [kind |-> "Euclid", nb_events |-> 0, pulses |-> row[1], steps |-> row[2]],
      loop_length |-> row[2] * Bar, root_note |-> r, note_len_avg |-> a, midi_ch |-> c] :
        row \in {x \in EuclidTable : x[2] > 0}, r \in RootNotes, a \in NoteLenAvgs,
        c \in Channels}

AddTableSeq ==
    /\ Len(base_seqs) < MaxSeqs
    /\ params.incr < MaxIncr
    /\ \E p \in TableParams :
          add_base_seq(p, [i \in 1..NbDraws(p) |->
                             [pitch |-> 0, velocity |-> 100, note_len |-> 1, time_incr |-> 1]])

TableNext ==
    \/ AddTableSeq
    \/ RemoveBaseSeq
    \/ SetStatus
    \/ CtlReturn
    \/ Tick
    \/ TickFor
    \/ TickLoop
    \/ TickReturn

TableSpec == Init /\ [][TableNext]_vars

(***************************************************************************)
(* Base sequences on each of the sixteen MIDI channels, played and         *)
(* silenced: the specification of the raw MIDI bytes.                      *)
(***************************************************************************)
MidiChannels == 1..16
ChannelParams ==
    [ty : {[kind |-> "Random", nb_events |-> 1, pulses |-> 0, steps |-> 0]},
     loop_length : {2 * Bar}, root_note : RootNotes, note_len_avg : NoteLenAvgs,
     midi_ch : MidiChannels]

AddChannelSeq ==
    /\ Len(base_seqs) < MaxSeqs
    /\ params.incr < MaxIncr
    /\ \E p \in ChannelParams : \E s \in {x \in Samples : x.note_len = Bar} :
          add_base_seq(p, <<s>>)

ChannelNext ==
    \/ AddChannelSeq
    \/ RemoveBaseSeq
    \/ SetStatus
    \/ CtlReturn
    \/ Tick
    \/ TickFor
    \/ TickLoop
    \/ TickReturn

ChannelSpec == Init /\ [][ChannelNext]_vars

(***************************************************************************)
(* The root note of a base sequence set from a MIDI pitch, as the OSC      *)
(* handler of /gisele/set_root does: the specification of the pitch/note   *)
(* conversions.                                                            *)
(***************************************************************************)
MidiPitches == 0..(NbPitches - 1)

\* the handler has read the arguments of the message
osc_receive(base_seq_id, root_note) ==
    /\ CtlReady
    /\ ctl_loc = NoLoc
    /\ ctl_pc' = "set_root"
    /\ ctl_loc' = [base_seq_id |-> base_seq_id, root_note |-> root_note]
    /\ UNCHANGED <<seqVars, rtVars, lk>>

osc_set_root ==
    /\ ctl_pc = "set_root"
    /\ LET i == get_base_seq(ctl_loc.base_seq_id)
           target_note == midi_pitch_to_note(ctl_loc.root_note)
       IN IF i = 0 \/ ~target_note.ok
          THEN ctl_pc' = "err" /\ UNCHANGED base_seqs
          ELSE /\ base_seqs' = ReplaceSeq(i, base_seq_transpose(base_seqs[i], target_note.note))
               /\ ctl_pc' = "handled"
    /\ UNCHANGED <<params, internal, fx_procs, rtVars, lockVars>>

\* osc_handling has returned, with or without an error
osc_return ==
    /\ ctl_pc \in {"handled", "err"}
    /\ ctl_pc' = "idle"
    /\ ctl_loc' = NoLoc
    /\ UNCHANGED <<seqVars, rtVars, lk>>

OscReceive == \E id \in Ids : \E pitch \in MidiPitches : osc_receive(id, pitch)

AddRootSeq ==
    /\ base_seqs = <<>>
    /\ params.incr < MaxIncr
    /\ \E p \in WideParams :
          add_base_seq(p, <<[pitch |-> 0, velocity |-> 100, note_len |-> Bar, time_incr |-> 1]>>)

RootNext ==
    \/ AddRootSeq
    \/ RemoveBaseSeq
    \/ OscReceive
    \/ osc_set_root
    \/ osc_return

RootSpec == Init /\ [][RootNext]_vars

(***************************************************************************)
(* Base sequences with events between the bar lines, two of them at the    *)
(* same position, generated and regenerated while the window advances by   *)
(* half bars: the specification of sync_event_head and of the order of the *)
(* written events.                                                         *)
(***************************************************************************)
SyncNbEvents == 2
SyncSeqs == MaxSeqs + 1
SyncParams ==
    {[ty |-> [kind |-> "Random", nb_events |-> n, pulses |-> 0, steps |-> 0],
      loop_length |-> 2 * Bar, root_note |-> r, note_len_avg |-> a, midi_ch |-> c] :
        n \in 1..SyncNbEvents, r \in RootNotes, a \in NoteLenAvgs, c \in Channels}

\* every note lasts half a bar and starts half a bar after the one before
SyncSamples(n) == [i \in 1..n |-> [pitch |-> 0, velocity |-> 100, note_len |-> 1, time_incr |-> 1]]

AddSyncSeq ==
    /\ Len(base_seqs) < SyncSeqs
    /\ params.incr < MaxIncr
    /\ \E p \in SyncParams : add_base_seq(p, SyncSamples(NbDraws(p)))

RegenSyncSeq ==
    \E id \in Ids :
        LET i == get_base_seq(id)
        IN regen_base_seq(id, SyncSamples(IF i = 0 THEN 0 ELSE NbDraws(base_seqs[i].params)))

SetNbEventsSync ==
    \E id \in Ids : \E n \in 1..SyncNbEvents : set_nb_events(id, n, SyncSamples(n))

SyncNext ==
    \/ AddSyncSeq
    \/ RegenSyncSeq
    \/ SetNbEventsSync
    \/ RemoveBaseSeq
    \/ SetStatus
    \/ CtlReturn
    \/ Tick
    \/ TickFor
    \/ TickLoop
    \/ TickReturn

SyncSpec == Init /\ [][SyncNext]_vars

(***************************************************************************)
(* A base sequence added to the stopped sequencer, played, paused and      *)
(* resumed: the specification of the resume after a pause.                 *)
(***************************************************************************)
AddResumeSeq ==
    /\ params.status = "Stop"
    /\ internal.status = "Silence"
    /\ internal.j_window_time_end = 0
    /\ Len(base_seqs) < MaxSeqs
    /\ \E p \in WideParams :
          add_base_seq(p, <<[pitch |-> 0, velocity |-> 100, note_len |-> Bar, time_incr |-> 1]>>)

PausePlayback ==
    /\ params.status = "Start"
    /\ internal.status = "Playing"
    /\ set_status("Pause")

ResumePlayback ==
    /\ params.status = "Pause"
    /\ internal.status = "Silence"
    /\ set_status("Start")

ResumeNext ==
    \/ AddResumeSeq
    \/ StartPlayback
    \/ PausePlayback
    \/ ResumePlayback
    \/ FreshTick
    \/ TickFor
    \/ TickLoop
    \/ TickReturn

ResumeSpec == Init /\ [][ResumeNext]_vars

(***************************************************************************)
(* Two base sequences with notes on and above their roots, transposed      *)
(* across the MIDI range: the specification of the effect of transpose.    *)
(***************************************************************************)
AddPairSeq ==
    /\ Len(base_seqs) < SyncSeqs
    /\ params.incr < MaxIncr
    /\ \E p \in WideParams : \E o \in PitchOffsets :
          add_base_seq(p, <<[pitch |-> o, velocity |-> 100, note_len |-> Bar, time_incr |-> 1]>>)

PairNext ==
    \/ AddPairSeq
    \/ TransposeWide
    \/ RemoveBaseSeq
    \/ SetStatus
    \/ CtlReturn
    \/ Tick
    \/ TickFor
    \/ TickLoop
    \/ TickReturn

PairSpec == Init /\ [][PairNext]_vars

(***************************************************************************)
(* Euclidean base sequences of every shape up to MaxSteps steps, pulses     *)
(* above the steps included, one step per bar.                             *)
(***************************************************************************)
ShapeParams ==
    {[ty |-> [kind |-> "Euclid", nb_events |-> 0, pulses |-> pu, steps |-> st],
      loop_length |-> st * Bar, root_note |-> r, note_len_avg |-> a, midi_ch |-> c] :
        pu \in 0..MaxSteps, st \in 1..MaxSteps, r \in RootNotes, a \in NoteLenAvgs,
        c \in Channels}

AddShapeSeq ==
    /\ base_seqs = <<>>
    /\ params.incr < MaxIncr
    /\ \E p \in ShapeParams :
          add_base_seq(p, [i \in 1..NbDraws(p) |->
                             [pitch |-> 0, velocity |-> 100, note_len |-> 1, time_incr |-> 1]])

ShapeNext ==
    \/ AddShapeSeq
    \/ RemoveBaseSeq
    \/ SetStatus
    \/ CtlReturn
    \/ Tick
    \/ TickFor
    \/ TickLoop
    \/ TickReturn

ShapeSpec == Init /\ [][ShapeNext]_vars

(***************************************************************************)
(* The realtime thread and the control thread at the level of the single   *)
(* lock acquisitions.  Every field is a parking_lot RwLock: write() sets   *)
(* the writer bit as soon as no other writer has it and then waits until   *)
(* the read guards are gone; read() is not recursive and waits while the   *)
(* writer bit is set, whoever holds read guards.  A guard taken in a       *)
(* temporary is released at the end of its statement, so an acquisition    *)
(* that is taken and released inside one step appears only as that step's  *)
(* guard.                                                                  *)
(***************************************************************************)
CanRead(l) == lk[l].w = "none"
AcquireRead(L, l, t) == [L EXCEPT ![l][t] = @ + 1]
ReleaseRead(L, l, t) == [L EXCEPT ![l][t] = @ - 1]
CanWrite(l) == lk[l].w = "none"
RequestWrite(L, l, t) == [L EXCEPT ![l].w = t]
Granted(l, t) == lk[l].w = t /\ lk[l].rt + lk[l].ctl = 0
ReleaseWrite(L, l) == [L EXCEPT ![l].w = "none"]
\* a write() that is granted at once
WriteNow(l) == lk[l].w = "none" /\ lk[l].rt + lk[l].ctl = 0
\* the guards of thread t go out of scope
ReleaseAll(L, t) ==
    [l \in Locks |-> [L[l] EXCEPT ![t] = 0, !.w = IF @ = t THEN "none" ELSE @]]

\* the callback's first two statements: params.read(), internal.write()
process_enter ==
    /\ rt_pc = "idle"
    /\ CanRead(Lock("params"))
    /\ CanWrite(Lock("internal"))
    /\ lk' = RequestWrite(AcquireRead(lk, Lock("params"), "rt"), Lock("internal"), "rt")
    /\ rt_pc' = "begin"
    /\ UNCHANGED <<seqVars, rt_idx, rt_loop_len, rt_head, out, ctl_pc, ctl_loc>>

\* internal.write() is granted: status handling, window increment, drop(seq_int)
process_begin(usecs) ==
    /\ rt_pc = "begin"
    /\ Granted(Lock("internal"), "rt")
    /\ LET status == next_status(params.status, internal.status)
           w_end == internal.j_window_time_end + WindowIncr(params.bpm, usecs)
       IN IF status = "Silence"
          THEN /\ rt_pc' = "return"
               /\ UNCHANGED <<internal, lk>>
          ELSE /\ internal' = [status |-> status,
                               j_window_time_start |-> internal.j_window_time_end,
                               j_window_time_end |-> w_end]
               /\ IF halting(params.status)
                  THEN rt_pc' = "notes_off" /\ UNCHANGED lk
                  ELSE rt_pc' = "for_read" /\ lk' = ReleaseWrite(lk, Lock("internal"))
    /\ UNCHANGED <<params, base_seqs, fx_procs, rt_idx, rt_loop_len, rt_head, out,
                   ctl_pc, ctl_loc>>

\* the cycles of this specification last a bar at 64 bpm; the model follows
\* the window up to MaxWindow, and a tick that resets or leaves it alone is free
LockCycle == {937500}
LockBpms == {64}
LockLoopLens == {2 * Bar, 4 * Bar}
LockWindowOk(usecs) ==
    \/ InWindowCap(usecs, MaxWindow)
    \/ next_status(params.status, internal.status) = "Silence"
    \/ params.status = "Stop"

ProcessEnter == (\E usecs \in LockCycle : LockWindowOk(usecs)) /\ process_enter
ProcessBegin == \E usecs \in LockCycle : LockWindowOk(usecs) /\ process_begin(usecs)

\* Sequencer::notes_off under the internal write guard; on Pause the status
\* becomes Silence and the callback returns
process_notes_off ==
    /\ rt_pc = "notes_off"
    /\ CanRead(Lock("base_seqs"))
    /\ \A i \in 1..Len(base_seqs) : CanRead(SeqLock("bs_params", i))
    /\ out' = notes_off(base_seqs)
    /\ IF params.status = "Stop"
       THEN rt_pc' = "reset" /\ UNCHANGED internal
       ELSE rt_pc' = "return" /\ internal' = [internal EXCEPT !.status = "Silence"]
    /\ UNCHANGED <<params, base_seqs, fx_procs, rt_idx, rt_loop_len, rt_head, ctl_pc,
                   ctl_loc, lk>>

\* Sequencer::reset_base_seqs and the reset of the window on Stop
process_reset ==
    /\ rt_pc = "reset"
    /\ CanRead(Lock("base_seqs"))
    /\ \A i \in 1..Len(base_seqs) : WriteNow(SeqLock("event_head", i))
    /\ base_seqs' = reset_base_seqs(base_seqs)
    /\ internal' = [status |-> "Silence", j_window_time_start |-> 0, j_window_time_end |-> 0]
    /\ rt_pc' = "return"
    /\ UNCHANGED <<params, fx_procs, rt_idx, rt_loop_len, rt_head, out, ctl_pc, ctl_loc, lk>>

\* the callback returns: every guard it still holds is dropped
process_return ==
    /\ rt_pc = "return"
    /\ lk' = ReleaseAll(lk, "rt")
    /\ rt_pc' = "idle"
    /\ rt_idx' = 0
    /\ rt_loop_len' = 0
    /\ rt_head' = 0
    /\ out' = <<>>
    /\ UNCHANGED <<seqVars, ctl_pc, ctl_loc>>

\* for base_seq in &*seq_ref.base_seqs.read(): the guard lives through the loop
process_for_read ==
    /\ rt_pc = "for_read"
    /\ CanRead(Lock("base_seqs"))
    /\ lk' = AcquireRead(lk, Lock("base_seqs"), "rt")
    /\ rt_idx' = 1
    /\ rt_pc' = "for"
    /\ UNCHANGED <<seqVars, rt_loop_len, rt_head, out, ctl_pc, ctl_loc>>

\* let loop_len = base_seq.params.read().loop_length
process_for ==
    /\ rt_pc = "for"
    /\ IF rt_idx <= Len(base_seqs)
       THEN /\ CanRead(SeqLock("bs_params", rt_idx))
            /\ rt_loop_len' = base_seqs[rt_idx].params.loop_length
            /\ rt_pc' = "buffer"
       ELSE /\ rt_pc' = "return"
            /\ UNCHANGED rt_loop_len
    /\ UNCHANGED <<seqVars, rt_idx, rt_head, out, ctl_pc, ctl_loc, lk>>

\* let event_buffer = &base_seq.event_buffer.read(): held through the inner loop
process_buffer_read ==
    /\ rt_pc = "buffer"
    /\ CanRead(SeqLock("event_buffer", rt_idx))
    /\ lk' = AcquireRead(lk, SeqLock("event_buffer", rt_idx), "rt")
    /\ rt_pc' = "loop"
    /\ UNCHANGED <<seqVars, rt_idx, rt_loop_len, rt_head, out, ctl_pc, ctl_loc>>

\* one pass of the inner loop up to the call of incr_event_head or the break
process_loop ==
    /\ rt_pc = "loop"
    /\ CanRead(SeqLock("event_head", rt_idx))
    /\ LET bs == base_seqs[rt_idx]
           curr_event_head == bs.event_head
           break == /\ rt_pc' = "for"
                    /\ rt_idx' = rt_idx + 1
                    /\ lk' = ReleaseRead(lk, SeqLock("event_buffer", rt_idx), "rt")
                    /\ UNCHANGED out
       IN IF curr_event_head < Len(bs.event_buffer)
          THEN LET next_event == bs.event_buffer[curr_event_head + 1]
                   push_event == event_in_cycle(internal, next_event.bar_pos, rt_loop_len)
               IN /\ CanRead(Lock("internal"))
                  /\ IF beyond_loop(rt_loop_len, next_event.bar_pos)
                     THEN /\ rt_pc' = "incr"
                          /\ UNCHANGED <<out, rt_idx, lk>>
                     ELSE IF push_event
                     THEN /\ CanRead(SeqLock("fx_proc_ids", rt_idx))
                          /\ CanRead(Lock("fx_procs"))
                          /\ \E jit \in [1..Len(bs.fx_proc_ids) -> Jitters] :
                                out' = send_event(Written(
                                          process_event(bs.fx_proc_ids, next_event.e_type, jit),
                                          next_event.bar_pos, bs.id, curr_event_head))
                          /\ rt_pc' = "incr"
                          /\ UNCHANGED <<rt_idx, lk>>
                     ELSE break
          ELSE break
    /\ UNCHANGED <<seqVars, rt_loop_len, rt_head, ctl_pc, ctl_loc>>

\* incr_event_head: let curr_event_head = *self.event_head.read()
process_incr_read ==
    /\ rt_pc = "incr"
    /\ CanRead(SeqLock("event_head", rt_idx))
    /\ rt_head' = base_seqs[rt_idx].event_head
    /\ rt_pc' = "incr_write"
    /\ UNCHANGED <<seqVars, rt_idx, rt_loop_len, out, ctl_pc, ctl_loc, lk>>

\* incr_event_head: the right-hand side takes event_buffer.read() again, under
\* the guard the callback already holds, then event_head.write() stores
process_incr_write ==
    /\ rt_pc = "incr_write"
    /\ CanRead(SeqLock("event_buffer", rt_idx))
    /\ WriteNow(SeqLock("event_head", rt_idx))
    /\ base_seqs' = [base_seqs EXCEPT ![rt_idx].event_head =
                        (rt_head + 1) % Len(base_seqs[rt_idx].event_buffer)]
    /\ rt_pc' = "loop"
    /\ UNCHANGED <<params, internal, fx_procs, rt_idx, rt_loop_len, rt_head, out,
                   ctl_pc, ctl_loc, lk>>

RtNext ==
    \/ ProcessEnter
    \/ ProcessBegin
    \/ process_notes_off
    \/ process_reset
    \/ process_return
    \/ process_for_read
    \/ process_for
    \/ process_buffer_read
    \/ process_loop
    \/ process_incr_read
    \/ process_incr_write

(***************************************************************************)
(* The control thread, handler by handler.  A step that is named `granted` *)
(* is the return of a write() whose writer bit an earlier step has set.    *)
(***************************************************************************)
LockNbEvents == MaxNbEvents + 1
LockParams ==
    [ty : {[kind |-> "Random", nb_events |-> n, pulses |-> 0, steps |-> 0] :
              n \in 1..LockNbEvents},
     loop_length : {2 * Bar}, root_note : RootNotes, note_len_avg : NoteLenAvgs,
     midi_ch : Channels]
LockSamples(n) ==
    [i \in 1..n |-> [pitch |-> 0, velocity |-> 100, note_len |-> Bar, time_incr |-> 1]]

CtlDone ==
    /\ lk' = ReleaseAll(lk, "ctl")
    /\ ctl_pc' = "idle"
    /\ ctl_loc' = NoLoc

\* let mut seq_params = self.params.write(), the first statement of add_base_seq,
\* add_fx_processor and of the handlers of set_status and set_bpm
params_write ==
    /\ ctl_pc = "idle"
    /\ CanWrite(Lock("params"))
    /\ \E op \in {"add_base_seq", "add_fx_processor", "set_status", "set_bpm"} :
          /\ op = "add_base_seq" => Len(base_seqs) < MaxSeqs /\ params.incr < MaxIncr
          /\ op = "add_fx_processor" => Len(fx_procs) < MaxFx /\ params.incr < MaxIncr
          /\ ctl_pc' = op
    /\ lk' = RequestWrite(lk, Lock("params"), "ctl")
    /\ UNCHANGED <<seqVars, rtVars, ctl_loc>>

add_base_seq_granted ==
    /\ ctl_pc = "add_base_seq"
    /\ Granted(Lock("params"), "ctl")
    /\ CanRead(Lock("internal"))
    /\ WriteNow(Lock("base_seqs"))
    /\ \E p \in LockParams :
          LET g == gen_fill(p, LockSamples(NbDraws(p)))
          IN IF ~g.ok THEN UNCHANGED <<params, base_seqs>>
             ELSE \E h \in sync_event_head(g.v, p.loop_length, internal.j_window_time_end) :
                    /\ base_seqs' = Append(base_seqs,
                           [id |-> params.incr, params |-> p, event_head |-> h,
                            event_buffer |-> g.v, fx_proc_ids |-> <<>>])
                    /\ params' = [params EXCEPT !.incr = @ + 1]
    /\ CtlDone
    /\ UNCHANGED <<internal, fx_procs, rtVars>>

add_fx_processor_granted ==
    /\ ctl_pc = "add_fx_processor"
    /\ Granted(Lock("params"), "ctl")
    /\ CanRead(Lock("base_seqs"))
    /\ \E id \in Ids :
          LET i == get_base_seq(id)
          IN IF i = 0 THEN UNCHANGED <<params, base_seqs, fx_procs>>
             ELSE /\ WriteNow(SeqLock("fx_proc_ids", i))
                  /\ WriteNow(Lock("fx_procs"))
                  /\ base_seqs' = [base_seqs EXCEPT ![i].fx_proc_ids = Append(@, params.incr)]
                  /\ fx_procs' = Append(fx_procs, [id |-> params.incr])
                  /\ params' = [params EXCEPT !.incr = @ + 1]
    /\ CtlDone
    /\ UNCHANGED <<internal, rtVars>>

set_status_granted ==
    /\ ctl_pc = "set_status"
    /\ Granted(Lock("params"), "ctl")
    /\ \E status \in Statuses : params' = [params EXCEPT !.status = status]
    /\ CtlDone
    /\ UNCHANGED <<internal, base_seqs, fx_procs, rtVars>>

set_bpm_granted ==
    /\ ctl_pc = "set_bpm"
    /\ Granted(Lock("params"), "ctl")
    /\ \E bpm \in LockBpms : params' = [params EXCEPT !.bpm = bpm]
    /\ CtlDone
    /\ UNCHANGED <<internal, base_seqs, fx_procs, rtVars>>

\* let base_seq = self.get_base_seq(base_seq_id)?, the first statement of the
\* id-taking mutators: the mapped read guard of base_seqs lives to their end
get_base_seq_read ==
    /\ ctl_pc = "idle"
    /\ CanRead(Lock("base_seqs"))
    /\ \E id \in Ids :
          LET i == get_base_seq(id)
          IN IF i = 0 THEN UNCHANGED <<ctl_pc, ctl_loc, lk>>
             ELSE /\ \E op \in {"regen_base_seq", "set_nb_events", "change_note_len",
                                "change_loop_len", "transpose"} : ctl_pc' = op
                  /\ ctl_loc' = [seq |-> i, events |-> <<>>]
                  /\ lk' = AcquireRead(lk, Lock("base_seqs"), "ctl")
    /\ UNCHANGED <<seqVars, rtVars>>

\* gen_fill up to its event_buffer.write(): the events are generated and sorted
GenFillRequest(p) ==
    LET g == gen_fill(p, LockSamples(NbDraws(p)))
        eb == SeqLock("event_buffer", ctl_loc.seq)
    IN IF ~g.ok THEN CtlDone
       ELSE /\ CanWrite(eb)
            /\ lk' = RequestWrite(AcquireRead(lk, Lock("internal"), "ctl"), eb, "ctl")
            /\ ctl_loc' = [ctl_loc EXCEPT !.events = g.v]
            /\ ctl_pc' = "event_buffer_write"

\* regen_base_seq: self.internal.read(), then gen_fill
regen_base_seq_fill ==
    /\ ctl_pc = "regen_base_seq"
    /\ CanRead(Lock("internal"))
    /\ GenFillRequest(base_seqs[ctl_loc.seq].params)
    /\ UNCHANGED <<seqVars, rtVars>>

\* set_nb_events: self.internal.read(), the write of nb_events under
\* params.write(), then gen_fill
set_nb_events_fill ==
    /\ ctl_pc = "set_nb_events"
    /\ CanRead(Lock("internal"))
    /\ WriteNow(SeqLock("bs_params", ctl_loc.seq))
    /\ IF base_seqs[ctl_loc.seq].params.ty.kind # "Random"
       THEN CtlDone /\ UNCHANGED base_seqs
       ELSE \E n \in 1..LockNbEvents :
               LET p == [base_seqs[ctl_loc.seq].params EXCEPT !.ty.nb_events = n]
               IN /\ base_seqs' = [base_seqs EXCEPT ![ctl_loc.seq].params = p]
                  /\ GenFillRequest(p)
    /\ UNCHANGED <<params, internal, fx_procs, rtVars>>

\* gen_fill: *self.event_buffer.write() = events
event_buffer_write_granted ==
    /\ ctl_pc = "event_buffer_write"
    /\ Granted(SeqLock("event_buffer", ctl_loc.seq), "ctl")
    /\ base_seqs' = [base_seqs EXCEPT ![ctl_loc.seq].event_buffer = ctl_loc.events]
    /\ lk' = ReleaseWrite(lk, SeqLock("event_buffer", ctl_loc.seq))
    /\ ctl_pc' = "sync_event_head"
    /\ UNCHANGED <<params, internal, fx_procs, rtVars, ctl_loc>>

\* sync_event_head, and the return of the handler that called it
sync_event_head_write ==
    /\ ctl_pc = "sync_event_head"
    /\ CanRead(SeqLock("event_buffer", ctl_loc.seq))
    /\ CanRead(SeqLock("bs_params", ctl_loc.seq))
    /\ WriteNow(SeqLock("event_head", ctl_loc.seq))
    /\ LET bs == base_seqs[ctl_loc.seq]
       IN \E h \in sync_event_head(bs.event_buffer, bs.params.loop_length,
                                   internal.j_window_time_end) :
             base_seqs' = [base_seqs EXCEPT ![ctl_loc.seq].event_head = h]
    /\ CtlDone
    /\ UNCHANGED <<params, internal, fx_procs, rtVars>>

\* change_note_len: self.internal.read(), self.params.write(),
\* self.event_buffer.write()
change_note_len_lock ==
    /\ ctl_pc = "change_note_len"
    /\ CanRead(Lock("internal"))
    /\ WriteNow(SeqLock("bs_params", ctl_loc.seq))
    /\ CanWrite(SeqLock("event_buffer", ctl_loc.seq))
    /\ lk' = RequestWrite(
                RequestWrite(AcquireRead(lk, Lock("internal"), "ctl"),
                             SeqLock("bs_params", ctl_loc.seq), "ctl"),
                SeqLock("event_buffer", ctl_loc.seq), "ctl")
    /\ ctl_pc' = "change_note_len_write"
    /\ UNCHANGED <<seqVars, rtVars, ctl_loc>>

\* change_note_len up to its call of sync_event_head, which it makes with both
\* write guards alive
change_note_len_granted ==
    /\ ctl_pc = "change_note_len_write"
    /\ Granted(SeqLock("event_buffer", ctl_loc.seq), "ctl")
    /\ \E target_note_len \in NoteLenTargets :
          base_seqs' = ReplaceSeq(ctl_loc.seq,
                          base_seq_change_note_len(base_seqs[ctl_loc.seq], target_note_len))
    /\ ctl_pc' = "sync_event_head"
    /\ UNCHANGED <<params, internal, fx_procs, rtVars, ctl_loc, lk>>

\* change_loop_len: base_seq.params.write().loop_length = target_loop_len
change_loop_len_write ==
    /\ ctl_pc = "change_loop_len"
    /\ WriteNow(SeqLock("bs_params", ctl_loc.seq))
    /\ \E target_loop_len \in LockLoopLens :
          base_seqs' = [base_seqs EXCEPT ![ctl_loc.seq].params.loop_length = target_loop_len]
    /\ CtlDone
    /\ UNCHANGED <<params, internal, fx_procs, rtVars>>

\* transpose: self.params.write(), then self.event_buffer.write()
transpose_lock ==
    /\ ctl_pc = "transpose"
    /\ WriteNow(SeqLock("bs_params", ctl_loc.seq))
    /\ CanWrite(SeqLock("event_buffer", ctl_loc.seq))
    /\ lk' = RequestWrite(RequestWrite(lk, SeqLock("bs_params", ctl_loc.seq), "ctl"),
                          SeqLock("event_buffer", ctl_loc.seq), "ctl")
    /\ ctl_pc' = "transpose_write"
    /\ UNCHANGED <<seqVars, rtVars, ctl_loc>>

transpose_granted ==
    /\ ctl_pc = "transpose_write"
    /\ Granted(SeqLock("event_buffer", ctl_loc.seq), "ctl")
    /\ \E target_root_note \in TransposeTargets :
          base_seqs' = ReplaceSeq(ctl_loc.seq,
                          base_seq_transpose(base_seqs[ctl_loc.seq], target_root_note))
    /\ CtlDone
    /\ UNCHANGED <<params, internal, fx_procs, rtVars>>

\* empty: *self.base_seqs.write() = vec![]
empty_lock ==
    /\ ctl_pc = "idle"
    /\ CanWrite(Lock("base_seqs"))
    /\ lk' = RequestWrite(lk, Lock("base_seqs"), "ctl")
    /\ ctl_pc' = "empty"
    /\ UNCHANGED <<seqVars, rtVars, ctl_loc>>

empty_granted ==
    /\ ctl_pc = "empty"
    /\ Granted(Lock("base_seqs"), "ctl")
    /\ CanWrite(Lock("params"))
    /\ base_seqs' = <<>>
    /\ lk' = RequestWrite(ReleaseWrite(lk, Lock("base_seqs")), Lock("params"), "ctl")
    /\ ctl_pc' = "empty_params"
    /\ UNCHANGED <<params, internal, fx_procs, rtVars, ctl_loc>>

\* empty: seq_params.incr = 0
empty_params_granted ==
    /\ ctl_pc = "empty_params"
    /\ Granted(Lock("params"), "ctl")
    /\ params' = [params EXCEPT !.incr = 0]
    /\ CtlDone
    /\ UNCHANGED <<internal, base_seqs, fx_procs, rtVars>>

\* remove_base_seq: the position is found under a read guard that is dropped,
\* then self.base_seqs.write()
remove_base_seq_lock ==
    /\ ctl_pc = "idle"
    /\ CanRead(Lock("base_seqs"))
    /\ \E id \in Ids :
          LET i == get_base_seq(id)
          IN IF i = 0 THEN UNCHANGED <<ctl_pc, ctl_loc, lk>>
             ELSE /\ CanWrite(Lock("base_seqs"))
                  /\ lk' = RequestWrite(lk, Lock("base_seqs"), "ctl")
                  /\ ctl_loc' = [seq |-> i, events |-> <<>>]
                  /\ ctl_pc' = "remove_base_seq"
    /\ UNCHANGED <<seqVars, rtVars>>

remove_base_seq_granted ==
    /\ ctl_pc = "remove_base_seq"
    /\ Granted(Lock("base_seqs"), "ctl")
    /\ base_seqs' = SubSeq(base_seqs, 1, ctl_loc.seq - 1)
                    \o SubSeq(base_seqs, ctl_loc.seq + 1, Len(base_seqs))
    /\ CtlDone
    /\ UNCHANGED <<params, internal, fx_procs, rtVars>>

CtlNext ==
    \/ params_write
    \/ add_base_seq_granted
    \/ add_fx_processor_granted
    \/ set_status_granted
    \/ set_bpm_granted
    \/ get_base_seq_read
    \/ regen_base_seq_fill
    \/ set_nb_events_fill
    \/ event_buffer_write_granted
    \/ sync_event_head_write
    \/ change_note_len_lock
    \/ change_note_len_granted
    \/ change_loop_len_write
    \/ transpose_lock
    \/ transpose_granted
    \/ empty_lock
    \/ empty_granted
    \/ empty_params_granted
    \/ remove_base_seq_lock
    \/ remove_base_seq_granted

LockNext == RtNext \/ CtlNext

LockInit == Init /\ params.bpm \in LockBpms

LockSpec == LockInit /\ [][LockNext]_vars

(***************************************************************************)
(* Properties                                                              *)
(***************************************************************************)
\* the callback has run its loop over base_seqs and is about to return
TickDone == rt_pc = "return" /\ internal.status = "Playing"

\* the callback has left Playing through the pause/stop branch and is about to return
TickHalted == rt_pc = "return" /\ internal.status = "Silence"

ChannelsInUse(bss) == {bss[i].params.midi_ch : i \in 1..Len(bss)}

\* how often the cycle's writer holds the event at index k of base sequence id
EmittedCount(id, k) == Cardinality({j \in 1..Len(out) : out[j].seq = id /\ out[j].idx = k})

\* the writer holds a message for every pitch 0..127 on every channel of chs
TailCovers(o, chs) ==
    (chs \X (0..127)) \subseteq {<<o[k].note.channel, o[k].note.pitch>> : k \in 1..Len(o)}

\* C1: every invocation of the realtime tick terminates: once the callback has
\* been entered it returns.
TickTerminates == (rt_pc # "idle") ~> (rt_pc = "idle")

\* the realtime thread is inside the callback and neither thread can take a step:
\* the lock the callback waits for is never granted
RtStarved == rt_pc # "idle" /\ ~ENABLED RtNext /\ ~ENABLED CtlNext

\* the callback, holding its read guard of an event buffer, waits in
\* incr_event_head for a second one behind the writer bit of a mutator that
\* waits for the first guard to go
NestedReadDeadlock ==
    /\ rt_pc = "incr_write"
    /\ ctl_pc \in {"event_buffer_write", "transpose_write", "change_note_len_write"}
    /\ lk[SeqLock("event_buffer", rt_idx)].w = "ctl"
    /\ lk[SeqLock("event_buffer", rt_idx)].rt > 0

\* C2: with the realtime thread running ticks and the control thread running
\* mutators, the realtime thread never waits forever for a lock: there is no
\* state in which the callback waits for a lock that can no longer be granted.
TickLocksGranted == ~RtStarved

\* C3: a tick that sees Start sets the observed status to Playing; a tick that
\* begins Playing and sees Pause or Stop writes the notes-off tail and no sequence
\* event, returns without entering the emission loop and leaves the observed
\* status Silence; the observed status changes in no other step.
StatusMachine ==
    [][/\ (params.status = "Start" /\ Tick) => internal'.status = "Playing"
       /\ (internal.status = "Playing" /\ params.status \in {"Pause", "Stop"} /\ Tick) =>
             /\ internal'.status = "Silence"
             /\ rt_pc' = "return"
             /\ \A k \in 1..Len(out') : out'[k].seq = -1 /\ ~out'[k].note.on_off
             /\ TailCovers(out', ChannelsInUse(base_seqs))
       /\ internal'.status # internal.status =>
             /\ Tick
             /\ \/ params.status = "Start" /\ internal'.status = "Playing"
                \/ /\ internal.status = "Playing"
                   /\ params.status \in {"Pause", "Stop"}
                   /\ internal'.status = "Silence"]_vars

\* C3 witness: a tick has left Playing on Pause and holds the notes-off tail
StatusMachineWitness ==
    TickHalted /\ params.status = "Pause" /\ out # <<>> /\ internal.j_window_time_end > 0

\* C4: after every tick executed while the control status is Stop the window is
\* at zero, every event_head is 0 and the observed status is Silence.
StopResets ==
    [][(params.status = "Stop" /\ Tick) =>
          /\ internal'.j_window_time_start = 0
          /\ internal'.j_window_time_end = 0
          /\ internal'.status = "Silence"
          /\ \A i \in 1..Len(base_seqs') : base_seqs'[i].event_head = 0]_vars

\* C5: when a Playing tick has run its loops, every base sequence none of whose
\* events lies at or beyond its loop_length has each buffer entry that
\* event_in_cycle places in the window written exactly once, and no other entry.
TickEmitsWindow ==
    TickDone =>
       \A i \in 1..Len(base_seqs) :
          LET bs == base_seqs[i]
              buf == bs.event_buffer
          IN (\A k \in 1..Len(buf) : buf[k].bar_pos < bs.params.loop_length) =>
                \A k \in 0..(Len(buf) - 1) :
                   EmittedCount(bs.id, k) =
                      IF event_in_cycle(internal, buf[k + 1].bar_pos, bs.params.loop_length)
                      THEN 1 ELSE 0

\* C6: a base sequence added to the stopped sequencer and then started has, in
\* every tick of the first traversal of its loop, each buffered event whose
\* bar_pos lies in the tick's window written.
FirstTraversal ==
    TickDone =>
       \A i \in 1..Len(base_seqs) :
          LET bs == base_seqs[i]
              buf == bs.event_buffer
          IN internal.j_window_time_end <= bs.params.loop_length =>
                \A k \in 0..(Len(buf) - 1) :
                   (/\ internal.j_window_time_start <= buf[k + 1].bar_pos
                    /\ buf[k + 1].bar_pos < internal.j_window_time_end)
                   => EmittedCount(bs.id, k) = 1

\* C7: the first tick after Shutdown is set while Playing behaves as for Pause:
\* notes-off tail, no sequence event, observed status Silence.
ShutdownLikePause ==
    [][(params.status = "Shutdown" /\ internal.status = "Playing" /\ Tick) =>
          /\ internal'.status = "Silence"
          /\ rt_pc' = "return"
          /\ TailCovers(out', ChannelsInUse(base_seqs))]_vars

\* the writer holds exactly one note-off of velocity 1 for every pitch on every
\* channel of chs, and nothing else
AllNotesOff(o, chs) ==
    /\ Len(o) = 128 * Cardinality(chs)
    /\ \A k \in 1..Len(o) :
          /\ ~o[k].note.on_off
          /\ o[k].note.velocity = 1
          /\ o[k].note.channel \in chs
          /\ o[k].note.pitch \in 0..127
    /\ Cardinality({<<o[k].note.channel, o[k].note.pitch>> : k \in 1..Len(o)}) = Len(o)

\* C8: the tick that leaves Playing on Pause or Stop writes exactly one note-off
\* (velocity 1) per pitch 0..127 per distinct channel in use, 128 times the
\* number of distinct channels, also when base sequences share a channel.
NotesOffTail ==
    [][(internal.status = "Playing" /\ params.status \in {"Pause", "Stop"} /\ Tick) =>
          AllNotesOff(out', ChannelsInUse(base_seqs))]_vars

\* C8 witness: the tail has been written while two base sequences share a
\* channel and a third one uses another
NotesOffTailWitness ==
    /\ TickHalted
    /\ Len(base_seqs) >= 3
    /\ Cardinality(ChannelsInUse(base_seqs)) = 2
    /\ Len(out) = 256

\* C9: in every state, also between the lock-protected steps of a mutator, every
\* base sequence with a non-empty buffer has 0 <= event_head < len(event_buffer).
HeadInBuffer ==
    \A i \in 1..Len(base_seqs) :
       base_seqs[i].event_buffer # <<>> =>
          /\ 0 <= base_seqs[i].event_head
          /\ base_seqs[i].event_head < Len(base_seqs[i].event_buffer)

\* every event of every buffer lies within [0, loop_length)
InLoopRange ==
    \A i \in 1..Len(base_seqs) : \A k \in 1..Len(base_seqs[i].event_buffer) :
       /\ 0 <= base_seqs[i].event_buffer[k].bar_pos
       /\ base_seqs[i].event_buffer[k].bar_pos < base_seqs[i].params.loop_length

LoopShrinks ==
    /\ Len(base_seqs') = Len(base_seqs)
    /\ \E i \in 1..Len(base_seqs) :
          base_seqs'[i].params.loop_length < base_seqs[i].params.loop_length

\* C10: every step other than a loop-shrinking change_loop_len keeps every event
\* of every buffer within 0 <= bar_pos < loop_length.
BarPosInLoop == [][(InLoopRange /\ ~LoopShrinks) => InLoopRange']_vars

\* C11: after any mutator every base sequence's event buffer is sorted
\* non-decreasingly by bar_pos (events with equal bar_pos in insertion order).
BuffersSorted ==
    \A i \in 1..Len(base_seqs) :
       LET buf == base_seqs[i].event_buffer
       IN \A k \in 1..(Len(buf) - 1) : buf[k].bar_pos <= buf[k + 1].bar_pos

\* C12: of two consecutive ticks through which the observed status stays Playing,
\* the later one starts its window where the earlier one ended it and ends it
\* strictly further; the window is never reduced modulo a loop length.
WindowAdvances ==
    [][(internal.status = "Playing" /\ internal'.status = "Playing" /\ Tick) =>
          /\ internal'.j_window_time_start = internal.j_window_time_end
          /\ internal'.j_window_time_end > internal.j_window_time_end]_vars

\* a call of an id-taking operation with the id
IdCall(id) ==
    \/ remove_base_seq(id)
    \/ add_fx_processor(id)
    \/ \E smp \in [1..(IF get_base_seq(id) = 0 THEN 0
                        ELSE NbDraws(base_seqs[get_base_seq(id)].params)) -> Samples] :
          regen_base_seq(id, smp)
    \/ \E t \in NoteLenTargets : change_note_len(id, t)
    \/ \E t \in LoopLens : change_loop_len(id, t)
    \/ \E n \in 0..MaxNbEvents : \E smp \in [1..n -> Samples] : set_nb_events(id, n, smp)
    \/ \E t \in TransposeTargets : transpose(id, t)

SetNbEventsCall(id) ==
    \E n \in 0..MaxNbEvents : \E smp \in [1..n -> Samples] : set_nb_events(id, n, smp)

\* C13: an id-taking operation called with an id no base sequence has, and
\* set_nb_events called on a Euclid sequence, return an error and leave
\* base_seqs (buffers, heads, params), fx_procs and the id counter unchanged;
\* so does every operation that returns an error.
ErrorsKeepState ==
    [][/\ ctl_pc' = "err" => UNCHANGED seqVars
       /\ \A id \in Ids :
             (ctl_pc = "idle" /\ rt_pc = "idle" /\ get_base_seq(id) = 0 /\ IdCall(id)) =>
                (ctl_pc' = "err" /\ UNCHANGED seqVars)
       /\ \A id \in Ids :
             (/\ ctl_pc = "idle" /\ rt_pc = "idle"
              /\ get_base_seq(id) # 0
              /\ base_seqs[get_base_seq(id)].params.ty.kind = "Euclid"
              /\ SetNbEventsCall(id)) =>
                (ctl_pc' = "err" /\ UNCHANGED seqVars)]_vars

\* C13 witness: an operation has returned an error while a Euclid base sequence
\* with events and an effect processor exist
ErrorsKeepStateWitness ==
    /\ ctl_pc = "err"
    /\ fx_procs # <<>>
    /\ base_seqs # <<>>
    /\ base_seqs[1].params.ty.kind = "Euclid"
    /\ base_seqs[1].event_buffer # <<>>
    /\ params.incr = MaxIncr

\* the ids of the live objects: the base sequences, then the effect processors
LiveIds ==
    [k \in 1..(Len(base_seqs) + Len(fx_procs)) |->
        IF k <= Len(base_seqs) THEN base_seqs[k].id ELSE fx_procs[k - Len(base_seqs)].id]

\* C14: after any sequence of add_base_seq, add_fx_processor, remove_base_seq
\* and empty, no two live objects (base sequences and effect processors) share
\* an id.
IdsUnique ==
    \A j \in 1..Len(LiveIds) : \A k \in 1..Len(LiveIds) : j # k => LiveIds[j] # LiveIds[k]

\* the Euclid parameters are invalid: more pulses than steps, or a loop_length
\* (in bars) that is not an integer multiple of steps
EuclidInvalid(p) ==
    /\ p.ty.kind = "Euclid"
    /\ \/ p.ty.pulses > p.ty.steps
       \/ p.ty.steps = 0
       \/ p.loop_length % (p.ty.steps * GridPerBar) # 0

\* C15: add_base_seq fails whenever the Euclid parameters are invalid: it returns
\* an error, appends no base sequence and leaves the id counter unchanged.
AddRejectsInvalidEuclid ==
    [][\A p \in BaseSeqParams :
          (/\ ctl_pc = "idle" /\ rt_pc = "idle"
           /\ EuclidInvalid(p)
           /\ \E smp \in [1..NbDraws(p) -> Samples] : add_base_seq(p, smp)) =>
             /\ ctl_pc' = "err"
             /\ base_seqs' = base_seqs
             /\ params'.incr = params.incr]_vars

\* the messages of the cycle's writer that come from the base sequence with the id
EmittedOf(id) == {j \in 1..Len(out) : out[j].seq = id}

\* no message of the writer comes from an event at or beyond its sequence's loop_length
EmittedWithinLoop ==
    \A j \in 1..Len(out) :
       out[j].seq >= 0 =>
          /\ get_base_seq(out[j].seq) # 0
          /\ out[j].bar_pos < base_seqs[get_base_seq(out[j].seq)].params.loop_length

\* the messages of one base sequence follow the buffer order: between two
\* successive ones lie (cyclically) only events at or beyond the loop_length
EmittedInBufferOrder ==
    \A j \in 1..Len(out) : \A k \in 1..Len(out) :
       (/\ out[j].seq >= 0 /\ out[k].seq = out[j].seq /\ j < k
        /\ \A m \in (j + 1)..(k - 1) : out[m].seq # out[j].seq) =>
          LET bs == base_seqs[get_base_seq(out[j].seq)]
              n == Len(bs.event_buffer)
              gap == (out[k].idx - out[j].idx - 1 + n) % n
          IN \A d \in 1..gap :
                bs.event_buffer[((out[j].idx + d) % n) + 1].bar_pos >= bs.params.loop_length

\* change_loop_len on a base sequence that exists changes its loop_length only
LoopLenFrame ==
    \A id \in Ids : \A target_loop_len \in LoopLens :
       (/\ ctl_pc = "idle" /\ rt_pc = "idle"
        /\ get_base_seq(id) # 0
        /\ change_loop_len(id, target_loop_len)) =>
          /\ base_seqs' = [base_seqs EXCEPT
                             ![get_base_seq(id)].params.loop_length = target_loop_len]
          /\ UNCHANGED <<params, internal, fx_procs>>

\* C16: change_loop_len changes only that sequence's loop_length (buffer, head and
\* the other sequences stay); in every tick no event at or beyond the loop_length
\* is written (such events are skipped), and the events below it are written in
\* buffer order.
ShrunkLoopSkips ==
    /\ [](EmittedWithinLoop /\ EmittedInBufferOrder)
    /\ [][LoopLenFrame]_vars

\* C16 witness: after a change_loop_len that left an event beyond the loop, a tick
\* has stepped over that event and written the one behind it
ShrunkLoopSkipsWitness ==
    /\ rt_pc = "loop"
    /\ LET bs == base_seqs[rt_idx]
       IN /\ Len(bs.event_buffer) = 2
          /\ bs.event_buffer[2].bar_pos >= bs.params.loop_length
          /\ bs.event_head = 0
          /\ Len(out) = 1
          /\ out[1].idx = 0

\* the pitches n processors can leave, each adding a sampled jitter and
\* saturating to [0, 127]
RECURSIVE JitterOutcomes(_, _)
JitterOutcomes(pitches, n) ==
    IF n = 0 THEN pitches
    ELSE JitterOutcomes({Clamp(q + j, 0, 127) : q \in pitches, j \in Jitters}, n - 1)

\* the processors of the base sequence that process_event finds
FoundProcs(bs) ==
    Cardinality({k \in 1..Len(bs.fx_proc_ids) : get_fx_proc(bs.fx_proc_ids[k]) # 0})

\* C17: every pitch a tick writes for a base sequence with a pitch-jitter
\* processor is the buffered pitch plus the sampled jitter saturated to [0, 127],
\* and the emission does not modify the buffered event.
JitterSaturates ==
    /\ [](\A j \in 1..Len(out) :
            out[j].seq >= 0 =>
               LET bs == base_seqs[get_base_seq(out[j].seq)]
               IN /\ out[j].note.pitch \in 0..127
                  /\ out[j].note.pitch \in
                        JitterOutcomes({bs.event_buffer[out[j].idx + 1].e_type.pitch},
                                       FoundProcs(bs)))
    /\ [][rt_pc = "loop" =>
             \A i \in 1..Len(base_seqs) :
                base_seqs'[i].event_buffer = base_seqs[i].event_buffer]_vars

\* the events of a buffer, whatever their order
EventsOf(buf) == {<<buf[k].e_type, buf[k].bar_pos>> : k \in 1..Len(buf)}

\* C18: change_note_len(x) followed by change_note_len(y) leaves every note-off
\* where a single change_note_len(y) on the original buffer leaves it, and every
\* note-on where it was.
NoteLenLastWins ==
    \A i \in 1..Len(base_seqs) : \A x \in NoteLenTargets : \A y \in NoteLenTargets :
       LET bs == base_seqs[i]
           twice == base_seq_change_note_len(base_seq_change_note_len(bs, x), y)
           once == base_seq_change_note_len(bs, y)
       IN /\ EventsOf(twice.event_buffer) = EventsOf(once.event_buffer)
          /\ {e \in EventsOf(twice.event_buffer) : e[1].on_off}
                = {e \in EventsOf(bs.event_buffer) : e[1].on_off}

\* transposing the base sequence to the root note clamps none of its pitches
NoClamp(bs, target_root_note) ==
    LET pitch_diff == note_to_midi_pitch(target_root_note)
                      - note_to_midi_pitch(bs.params.root_note)
    IN \A k \in 1..Len(bs.event_buffer) :
          bs.event_buffer[k].e_type.pitch + pitch_diff \in 0..127

\* C19: for root notes r and r2 for which no pitch is clamped, transpose(r)
\* followed by transpose(r2) leaves the event buffer and the root_note that a
\* single transpose(r2) leaves.
TransposeLastWins ==
    \A i \in 1..Len(base_seqs) : \A r \in WideRoots : \A r2 \in WideRoots :
       LET bs == base_seqs[i]
       IN (/\ NoClamp(bs, r)
           /\ NoClamp(base_seq_transpose(bs, r), r2)
           /\ NoClamp(bs, r2)) =>
             base_seq_transpose(base_seq_transpose(bs, r), r2) = base_seq_transpose(bs, r2)

\* C19 witness: a base sequence with a note above its root has been transposed,
\* and can be transposed further without clamping
TransposeLastWinsWitness ==
    /\ base_seqs # <<>>
    /\ base_seqs[1].params.root_note \notin RootNotes
    /\ base_seqs[1].event_buffer # <<>>
    /\ base_seqs[1].event_buffer[1].e_type.pitch
          = note_to_midi_pitch(base_seqs[1].params.root_note) + 7
    /\ \E r \in WideRoots : \E r2 \in WideRoots :
          /\ r # r2 /\ r # base_seqs[1].params.root_note
          /\ NoClamp(base_seqs[1], r)
          /\ NoClamp(base_seq_transpose(base_seqs[1], r), r2)
          /\ NoClamp(base_seqs[1], r2)

\* the rhythm a Euclid base sequence plays: 1 for each step that has a note-on
RhythmOf(bs) ==
    [i \in 1..bs.params.ty.steps |->
        IF \E k \in 1..Len(bs.event_buffer) :
              /\ bs.event_buffer[k].e_type.on_off
              /\ bs.event_buffer[k].bar_pos
                    = (i - 1) * (bs.params.loop_length \div bs.params.ty.steps)
        THEN 1 ELSE 0]

\* C20: gen_euclid(pulses, steps) returns the pattern of the table of
\* test_euclid for every listed pair, and a Euclid base sequence of a listed
\* shape has its note-ons on exactly the steps the pattern marks.
EuclidMatchesTable ==
    /\ \A row \in EuclidTable :
          gen_euclid(row[1], row[2]) = [ok |-> TRUE, v |-> row[3]]
    /\ \A i \in 1..Len(base_seqs) :
          LET bs == base_seqs[i]
          IN bs.params.ty.kind = "Euclid" =>
                \A row \in EuclidTable :
                   (/\ row[1] = bs.params.ty.pulses /\ row[2] = bs.params.ty.steps
                    /\ row[2] > 0
                    /\ bs.params.loop_length % (row[2] * GridPerBar) = 0) =>
                      RhythmOf(bs) = row[3]

\* C20 witness: the base sequence Euclid(13, 24) exists with its 13 notes
EuclidMatchesTableWitness ==
    /\ base_seqs # <<>>
    /\ base_seqs[1].params.ty.pulses = 13
    /\ base_seqs[1].params.ty.steps = 24
    /\ Len(base_seqs[1].event_buffer) = 26

\* how many steps of the rhythm are pulses
Ones(v) == Cardinality({i \in 1..Len(v) : v[i] = 1})

\* C21: for 0 <= p <= s, gen_euclid(p, s) succeeds with a binary sequence of
\* length s that has exactly p ones (none when p = 0, only ones when p = s), and
\* for p > s it returns an error; a Euclid base sequence has a note for each of
\* its p pulses on p different steps.
EuclidCounts ==
    /\ \A pu \in 0..MaxSteps : \A st \in 0..MaxSteps :
          LET r == gen_euclid(pu, st)
          IN IF pu <= st
             THEN /\ r.ok
                  /\ Len(r.v) = st
                  /\ \A i \in 1..st : r.v[i] \in {0, 1}
                  /\ Ones(r.v) = pu
             ELSE ~r.ok
    /\ \A i \in 1..Len(base_seqs) :
          LET bs == base_seqs[i]
          IN (/\ bs.params.ty.kind = "Euclid"
              /\ bs.params.ty.steps > 0
              /\ bs.params.loop_length % (bs.params.ty.steps * GridPerBar) = 0) =>
                /\ bs.params.ty.pulses <= bs.params.ty.steps
                /\ Len(bs.event_buffer) = 2 * bs.params.ty.pulses
                /\ Ones(RhythmOf(bs)) = bs.params.ty.pulses

\* C21 witness: a Euclid base sequence with as many pulses as steps exists, and
\* an add_base_seq with more pulses than steps has returned its error
EuclidCountsWitness ==
    /\ ctl_pc = "err"
    /\ base_seqs # <<>>
    /\ base_seqs[1].params.ty.kind = "Euclid"
    /\ base_seqs[1].params.ty.steps = MaxSteps
    /\ base_seqs[1].params.ty.pulses = MaxSteps
    /\ Len(base_seqs[1].event_buffer) = 2 * MaxSteps

RECURSIVE BitOr(_, _)
BitOr(a, b) ==
    IF a = 0 THEN b
    ELSE IF b = 0 THEN a
    ELSE (IF a % 2 = 1 \/ b % 2 = 1 THEN 1 ELSE 0) + 2 * BitOr(a \div 2, b \div 2)

\* C22: every written MidiNote with channel in 1..16 goes out as the three bytes
\* [status, pitch, velocity] with status = ((8 + on_off) * 16) | (channel - 1),
\* 0x90 | (channel - 1) for a note-on and 0x80 | (channel - 1) for a note-off,
\* and the unreduced status computation fits in 8 bits.
RawBytes ==
    \A k \in 1..Len(out) :
        LET note == out[k].note
            on_off == IF note.on_off THEN 1 ELSE 0
        IN note.channel \in MidiChannels =>
             /\ out[k].bytes = <<BitOr((8 + on_off) * 16, note.channel - 1), note.pitch,
                                 note.velocity>>
             /\ out[k].bytes[1] = BitOr(IF note.on_off THEN 144 ELSE 128, note.channel - 1)
             /\ (8 + on_off) * 16 + (note.channel - 1) < ByteWidth

\* C22 witness: a note-on and a note-off of channel 16 have been written
RawBytesWitness ==
    /\ \E k \in 1..Len(out) : out[k].note.channel = 16 /\ out[k].note.on_off
    /\ \E k \in 1..Len(out) : out[k].note.channel = 16 /\ ~out[k].note.on_off

\* the pitch classes A and B of the tests
PitchClassA == 9
PitchClassB == 11

\* C23: for every MIDI pitch p in 12..127 note_to_midi_pitch(midi_pitch_to_note(p))
\* = p, with 69 <-> A4, 21 <-> A0 and 95 <-> B6 as the tests fix, and
\* midi_pitch_to_note returns an error for every p < 12; so a root set from the
\* pitch p >= 12 converts back to p, and one set from p < 12 is refused and
\* changes nothing.
PitchRoundTrip ==
    /\ \A p \in MidiPitches :
          LET r == midi_pitch_to_note(p)
          IN IF p >= 12 THEN r.ok /\ note_to_midi_pitch(r.note) = p ELSE ~r.ok
    /\ midi_pitch_to_note(69).note = [pitch_class |-> PitchClassA, octave |-> 4]
    /\ midi_pitch_to_note(21).note = [pitch_class |-> PitchClassA, octave |-> 0]
    /\ midi_pitch_to_note(95).note = [pitch_class |-> PitchClassB, octave |-> 6]
    /\ ctl_pc = "handled" =>
          /\ ctl_loc.root_note >= 12
          /\ note_to_midi_pitch(
                 base_seqs[get_base_seq(ctl_loc.base_seq_id)].params.root_note)
               = ctl_loc.root_note
    /\ (ctl_pc \in {"handled", "err"} /\ ctl_loc # NoLoc /\ ctl_loc.root_note < 12) =>
          ctl_pc = "err"

\* C23 witness: the root of a base sequence has been set from the top pitch 127
\* and reads G9
PitchRoundTripWitness ==
    /\ ctl_pc = "handled"
    /\ ctl_loc.root_note = 127
    /\ base_seqs[get_base_seq(ctl_loc.base_seq_id)].params.root_note
         = [pitch_class |-> 7, octave |-> 9]

\* C23 witness of the error: a set_root from the pitch 11 has been refused
PitchBelowRange == ctl_pc = "err" /\ ctl_loc # NoLoc /\ ctl_loc.root_note = 11

\* the control thread holds a guard or a writer bit of some lock
CtlHoldsLock == \E l \in Locks : lk[l].w = "ctl" \/ lk[l].ctl > 0

\* the control thread is inside a mutator and cannot take its next step although
\* the realtime thread is outside the callback and holds nothing
CtlSelfBlocked == ctl_pc # "idle" /\ rt_pc = "idle" /\ ~ENABLED CtlNext

\* C24: every control mutator called with a valid id returns: with the realtime
\* thread outside the callback a mutator can always take its next step (it never
\* waits for a lock it holds itself), and once it has returned the control
\* thread holds no lock.
MutatorsReturn ==
    /\ ctl_pc = "idle" => ~CtlHoldsLock
    /\ ~CtlSelfBlocked

\* the index of the first event of buf that lies strictly after the position x,
\* 0 when there is none
FirstAfter(buf, x) ==
    LET later == {k \in 1..Len(buf) : buf[k].bar_pos > x}
    IN IF later = {} THEN 0 ELSE (CHOOSE k \in later : \A j \in later : k <= j) - 1

BarPositions(bs) == [k \in 1..Len(bs.event_buffer) |-> bs.event_buffer[k].bar_pos]

\* the step is a control operation that has added the base sequence at index i
\* or has given it new event positions or a new head
Resynced(i) ==
    \/ i > Len(base_seqs)
    \/ /\ base_seqs'[i].id = base_seqs[i].id
       /\ \/ base_seqs'[i].event_head # base_seqs[i].event_head
          \/ BarPositions(base_seqs'[i]) # BarPositions(base_seqs[i])

\* C25: after add_base_seq, regen_base_seq, set_nb_events or change_note_len has
\* run while the window end is w, the event_head of the sequence is the index of
\* the first event of its buffer whose bar_pos is strictly greater than
\* w mod loop_length, or 0 when there is none or the buffer is empty.
HeadSynced ==
    [][(/\ ctl_pc = "idle"
        /\ rt_pc = "idle"
        /\ ctl_pc' = "idle"
        /\ rt_pc' = "idle"
        /\ Len(base_seqs') >= Len(base_seqs)) =>
          \A i \in 1..Len(base_seqs') :
             Resynced(i) =>
                base_seqs'[i].event_head =
                   FirstAfter(base_seqs'[i].event_buffer,
                              FMod(internal.j_window_time_end,
                                   base_seqs'[i].params.loop_length))]_vars

\* C26: when a mutator that regenerates or re-sorts a buffer runs concurrently
\* with a tick, the head written by its sync_event_head is advanced only by the
\* events the tick emits afterwards: the store of incr_event_head advances the
\* head that is current at that moment by one, it never writes the successor of
\* a head read before the resynchronization.
IncrKeepsResync ==
    [][(rt_pc = "incr_write" /\ rt_pc' = "loop") =>
          base_seqs'[rt_idx].event_head =
             (base_seqs[rt_idx].event_head + 1) % Len(base_seqs[rt_idx].event_buffer)]_vars

\* the window [j_window_time_start, j_window_time_end) of the tick contains a
\* point congruent to bar_pos modulo loop_len
WindowHolds(int, bar_pos, loop_len) ==
    \E x \in int.j_window_time_start..(int.j_window_time_end - 1) : x % loop_len = bar_pos

\* C27: in every Playing tick and for every loop length L, event_in_cycle holds
\* of a position in [0, L) exactly when the tick's window contains a point
\* congruent to it modulo L, also when the window wraps around the loop and
\* when it has zero length; so no position is in-cycle in two consecutive ticks
\* that together span less than L, and none is missed.
InCycleExact ==
    (internal.status = "Playing" /\ rt_pc # "idle") =>
       \A L \in LoopLens : \A bar_pos \in 0..(L - 1) :
          event_in_cycle(internal, bar_pos, L) <=> WindowHolds(internal, bar_pos, L)

\* a tick of usecs microseconds that goes on to the emission loop and advances
\* the window end by other than usecs / usec_per_bar bars, or does not start at
\* the previous window end
TickOffTempo(usecs, usec_per_bar_times_bpm) ==
    /\ next_status(params.status, internal.status) = "Playing"
    /\ ~halting(params.status)
    /\ TickBegin(usecs)
    /\ rt_pc' = "for"
    /\ ~(/\ internal'.j_window_time_start = internal.j_window_time_end
         /\ usec_per_bar_times_bpm
               * (internal'.j_window_time_end - internal.j_window_time_end)
              = params.bpm * usecs * GridPerBar)

\* C28: a Playing tick of d microseconds at tempo BPM advances the window end by
\* d / usec_per_bar bars with usec_per_bar = 60_000_000 * 4 / BPM (one bar for
\* 2,000,000 microseconds at 120 BPM), starting at the previous window end; a
\* change of the BPM leaves the accumulated window as it is.
FourBeatBars ==
    CtlReady =>
       /\ \A usecs \in CycleUsecs : ~ENABLED TickOffTempo(usecs, 4 * UsecPerMinute)
       /\ ~ENABLED (SetBpm /\ internal' # internal)

\* C28, amended: a Playing tick of d microseconds at tempo BPM advances the window
\* end by d * BPM / 60_000_000 bars, a bar per beat (four bars for 2,000,000
\* microseconds at 120 BPM), starting at the previous window end; a change of
\* the BPM leaves the accumulated window as it is.
OneBeatBars ==
    CtlReady =>
       /\ \A usecs \in CycleUsecs : ~ENABLED TickOffTempo(usecs, UsecPerMinute)
       /\ ~ENABLED (SetBpm /\ internal' # internal)

\* C28 witness: a Playing tick at 64 bpm has advanced the window by one bar from
\* a window end that was already past the origin
OneBeatBarsWitness ==
    /\ rt_pc = "for"
    /\ params.bpm = 64
    /\ internal.j_window_time_start > 0
    /\ internal.j_window_time_end = internal.j_window_time_start + Bar

\* C29: a pause followed by Start resumes every sequence without a stall: in a
\* sequencer that plays, pauses and resumes, every Playing tick past the first
\* traversal of a loop writes each event with 0 <= bar_pos < loop_length whose
\* position its window contains, so no sequence is silent for a loop because
\* the event under its head lay in the window consumed by the pausing tick.
ResumeEmits ==
    TickDone =>
       \A i \in 1..Len(base_seqs) :
          LET bs == base_seqs[i]
              buf == bs.event_buffer
              L == bs.params.loop_length
          IN internal.j_window_time_start >= L =>
                \A k \in 0..(Len(buf) - 1) :
                   (/\ 0 <= buf[k + 1].bar_pos
                    /\ buf[k + 1].bar_pos < L
                    /\ WindowHolds(internal, buf[k + 1].bar_pos, L))
                   => EmittedCount(bs.id, k) >= 1

\* the last message of the cycle's writer that comes from the base sequence id
LastEmittedOf(id) == CHOOSE j \in EmittedOf(id) : \A k \in EmittedOf(id) : k <= j

TransposeEffect ==
    [][\A id \in Ids : \A target \in WideRoots :
          (/\ ctl_pc = "idle"
           /\ rt_pc = "idle"
           /\ get_base_seq(id) # 0
           /\ transpose(id, target)) =>
             LET i == get_base_seq(id)
                 old == base_seqs[i]
                 new == base_seqs'[i]
                 diff == ((target.octave + 1) * 12 + target.pitch_class)
                         - ((old.params.root_note.octave + 1) * 12
                            + old.params.root_note.pitch_class)
             IN /\ ctl_pc' = "idle"
                /\ Len(base_seqs') = Len(base_seqs)
                /\ \A j \in 1..Len(base_seqs) : j # i => base_seqs'[j] = base_seqs[j]
                /\ new.params = [old.params EXCEPT !.root_note = target]
                /\ new.id = old.id
                /\ new.event_head = old.event_head
                /\ new.fx_proc_ids = old.fx_proc_ids
                /\ Len(new.event_buffer) = Len(old.event_buffer)
                /\ \A k \in 1..Len(old.event_buffer) :
                      LET e == old.event_buffer[k]
                          f == new.event_buffer[k]
                          shifted == e.e_type.pitch + diff
                      IN /\ f.bar_pos = e.bar_pos
                         /\ f.e_type.on_off = e.e_type.on_off
                         /\ f.e_type.channel = e.e_type.channel
                         /\ f.e_type.velocity = e.e_type.velocity
                         /\ f.e_type.pitch = IF shifted < 0 THEN 0
                                             ELSE IF shifted > 127 THEN 127 ELSE shifted
                /\ UNCHANGED <<params, internal, fx_procs>>]_vars

\* C31 witness: of two base sequences the second has been transposed to G9, its
\* note a fifth above the root clamped to 127, and the first is as it was added
TransposeEffectWitness ==
    /\ Len(base_seqs) = 2
    /\ base_seqs[1].params.root_note \in RootNotes
    /\ base_seqs[2].params.root_note = [pitch_class |-> 7, octave |-> 9]
    /\ base_seqs[2].event_buffer[1].e_type.pitch = 127
    /\ base_seqs[1].event_buffer[1].e_type.pitch = 67

\* C32: a tick that runs while the observed status is Silence and the control
\* status is not Start writes nothing and returns at once, and neither its
\* begin nor its return changes the window, a head, a buffer or the observed
\* status.
SilentTickFrame ==
    [][(/\ internal.status = "Silence"
        /\ params.status # "Start"
        /\ \/ rt_pc = "idle" /\ rt_pc' # "idle"
           \/ rt_pc = "return" /\ rt_pc' = "idle") =>
          /\ rt_pc = "idle" => rt_pc' = "return"
          /\ out' = <<>>
          /\ internal' = internal
          /\ base_seqs' = base_seqs
          /\ UNCHANGED <<params, fx_procs>>]_vars

\* C32 witness: a silent tick is about to return in a paused sequencer that has
\* a base sequence and a window past the origin
SilentTickFrameWitness ==
    /\ rt_pc = "return"
    /\ internal.status = "Silence"
    /\ params.status = "Pause"
    /\ out = <<>>
    /\ base_seqs # <<>>
    /\ base_seqs[1].event_buffer # <<>>
    /\ internal.j_window_time_end > 0

\* the locks on which thread t has a guard or the writer bit
HeldBy(t) == {l \in Locks : lk[l][t] > 0 \/ lk[l].w = t}

\* the realtime thread holds at most two locks
RtHoldsTwo == Cardinality(HeldBy("rt")) <= 2

\* a control mutator that is regenerating a buffer has no hold on internal
RegenLeavesInternal ==
    ctl_pc = "event_buffer_write" => Lock("internal") \notin HeldBy("ctl")

\* C33: at no point of a tick does the realtime thread hold more than two of
\* the sequencer's and the sequences' locks, and a control mutator that
\* regenerates a buffer never holds the internal lock.
LockDiscipline == RtHoldsTwo /\ RegenLeavesInternal

\* b_i = floor((i+1)*p/s) - floor(i*p/s) for i = 0..s-1, as a sequence over 1..s
FloorEuclid(p, s) == [i \in 1..s |-> (i * p) \div s - ((i - 1) * p) \div s]

\* v read cyclically from its step k on
Rotate(v, k) == [i \in 1..Len(v) |-> v[((i - 1 + k) % Len(v)) + 1]]

\* the Euclid base sequences whose parameters let gen_euclid_midi_vec generate
EuclidSeqs ==
    {i \in 1..Len(base_seqs) :
        /\ base_seqs[i].params.ty.kind = "Euclid"
        /\ base_seqs[i].params.ty.steps > 0
        /\ base_seqs[i].params.ty.pulses <= base_seqs[i].params.ty.steps
        /\ base_seqs[i].params.loop_length % (base_seqs[i].params.ty.steps * GridPerBar) = 0}

\* C34 as stated: for 0 <= p <= s and s >= 1, gen_euclid(p, s) is the sequence
\* b_i = floor((i+1)*p/s) - floor(i*p/s), so that every Euclid base sequence
\* has its pulses on the steps of that sequence.
EuclidIsFloor ==
    \A i \in EuclidSeqs :
        LET ty == base_seqs[i].params.ty
        IN /\ gen_euclid(ty.pulses, ty.steps).v = FloorEuclid(ty.pulses, ty.steps)
           /\ RhythmOf(base_seqs[i]) = FloorEuclid(ty.pulses, ty.steps)

\* C34 amended: for 0 <= p <= s and s >= 1, gen_euclid(p, s) is a rotation of
\* the sequence b_i = floor((i+1)*p/s) - floor(i*p/s), and equal to it when
\* p = 0 or p = s; every Euclid base sequence has its pulses on the steps of
\* that rotation.
EuclidIsFloorRotation ==
    /\ \A st \in 1..MaxSteps : \A pu \in 0..st :
          LET r == gen_euclid(pu, st)
          IN /\ r.ok
             /\ \E k \in 0..(st - 1) : r.v = Rotate(FloorEuclid(pu, st), k)
             /\ pu \in {0, st} => r.v = FloorEuclid(pu, st)
    /\ \A i \in EuclidSeqs :
          LET ty == base_seqs[i].params.ty
          IN \E k \in 0..(ty.steps - 1) :
                RhythmOf(base_seqs[i]) = Rotate(FloorEuclid(ty.pulses, ty.steps), k)

\* C34 witness: a Euclid base sequence of three pulses on four steps plays the
\* steps 1, 3 and 4, where the floor sequence has the steps 2, 3 and 4
EuclidIsFloorRotationWitness ==
    /\ base_seqs # <<>>
    /\ 1 \in EuclidSeqs
    /\ base_seqs[1].params.ty.pulses = 3
    /\ base_seqs[1].params.ty.steps = 4
    /\ RhythmOf(base_seqs[1]) = <<1, 0, 1, 1>>
    /\ FloorEuclid(3, 4) = <<0, 1, 1, 1>>
    /\ RhythmOf(base_seqs[1]) = Rotate(FloorEuclid(3, 4), 3)

====
